---- MODULE Spec2Model ----
(***************************************************************************)
(* tsdnsreflector: zone matcher, zone validation, 4via6 translator,        *)
(* per-zone response cache, forwarder and the DNS request dispatcher.      *)
(*                                                                         *)
(* Strings are TLA+ strings (Len, \o and SubSeq work on them in TLC).      *)
(* IP addresses are tuples of bytes.  Time is counted in seconds.          *)
(***************************************************************************)
EXTENDS Integers, Sequences, FiniteSets, TLC

VARIABLES
    config,      \* the loaded configuration the server and handler run
    via6Trans,   \* the translator built from it
    tsnet,       \* whether an overlay (TSNet) server is attached
    zoneCaches,  \* zone name -> ZoneCache
    now,         \* the clock, in seconds
    served,      \* number of requests handled so far
    last,        \* the request handled last and what the handler did for it
    probe,       \* the last application of an operation checked on its own
    hist         \* cache key -> the last Set of it, while its entry is stored

vars == <<config, via6Trans, tsnet, zoneCaches, now, served, last, probe, hist>>

(***************************************************************************)
(* Bounds of the model.                                                    *)
(***************************************************************************)
MaxTime == 2

MaxServed == 2

MaxOps == 3

Nil == "<nil>"

(***************************************************************************)
(* Go's strings package, as used by the sources.                           *)
(***************************************************************************)
HasSuffix(s, suffix) ==
    /\ Len(s) >= Len(suffix)
    /\ SubSeq(s, Len(s) - Len(suffix) + 1, Len(s)) = suffix

HasPrefix(s, prefix) ==
    /\ Len(s) >= Len(prefix)
    /\ SubSeq(s, 1, Len(prefix)) = prefix

TrimSuffix(s, suffix) ==
    IF HasSuffix(s, suffix) THEN SubSeq(s, 1, Len(s) - Len(suffix)) ELSE s

TrimPrefix(s, prefix) ==
    IF HasPrefix(s, prefix) THEN SubSeq(s, Len(prefix) + 1, Len(s)) ELSE s

UpperLower ==
    [c \in {"A", "B", "C", "D", "E", "F", "G", "H", "I", "J", "K", "L", "M",
            "N", "O", "P", "Q", "R", "S", "T", "U", "V", "W", "X", "Y", "Z"} |->
        CASE c = "A" -> "a" [] c = "B" -> "b" [] c = "C" -> "c" [] c = "D" -> "d"
          [] c = "E" -> "e" [] c = "F" -> "f" [] c = "G" -> "g" [] c = "H" -> "h"
          [] c = "I" -> "i" [] c = "J" -> "j" [] c = "K" -> "k" [] c = "L" -> "l"
          [] c = "M" -> "m" [] c = "N" -> "n" [] c = "O" -> "o" [] c = "P" -> "p"
          [] c = "Q" -> "q" [] c = "R" -> "r" [] c = "S" -> "s" [] c = "T" -> "t"
          [] c = "U" -> "u" [] c = "V" -> "v" [] c = "W" -> "w" [] c = "X" -> "x"
          [] c = "Y" -> "y" [] c = "Z" -> "z"]

RECURSIVE ToLower(_)
ToLower(s) ==
    IF Len(s) = 0 THEN s
    ELSE LET c == SubSeq(s, 1, 1)
         IN  (IF c \in DOMAIN UpperLower THEN UpperLower[c] ELSE c)
                \o ToLower(SubSeq(s, 2, Len(s)))

(***************************************************************************)
(* Domain patterns and zone selection (internal/config/zone_methods.go).   *)
(***************************************************************************)
WithDot(domain) == IF HasSuffix(domain, ".") THEN domain ELSE domain \o "."

\* MatchesDomain with a wildcard arm that also takes the bare suffix.
MatchesDomainBare(domain, zoneDomain) ==
    LET d == WithDot(domain)
        zd == WithDot(zoneDomain)
    IN  IF HasPrefix(zd, "*.")
        THEN HasSuffix("." \o d, SubSeq(zd, 2, Len(zd)))
        ELSE d = zd \/ HasSuffix(d, "." \o zd)

MatchesDomain(domain, zoneDomain) ==
    LET d == WithDot(domain)
        zd == WithDot(zoneDomain)
    IN  IF HasPrefix(zd, "*.")
        THEN HasSuffix(d, SubSeq(zd, 2, Len(zd)))
        ELSE d = zd \/ HasSuffix(d, "." \o zd)

\* The running best match of GetZone at one pattern: replaced only by a
\* strictly longer pattern.
BetterMatchShortest(acc, zn, zoneDomain) ==
    IF acc.zone = Nil \/ Len(zoneDomain) < acc.len
    THEN [zone |-> zn, len |-> Len(zoneDomain)]
    ELSE acc

BetterMatch(acc, zn, zoneDomain) ==
    IF acc.zone = Nil \/ Len(zoneDomain) > acc.len
    THEN [zone |-> zn, len |-> Len(zoneDomain)]
    ELSE acc

RECURSIVE ScanDomains(_, _, _, _, _)
ScanDomains(zones, zn, i, domain, acc) ==
    IF i > Len(zones[zn].Domains) THEN acc
    ELSE LET zoneDomain == zones[zn].Domains[i]
         IN  ScanDomains(zones, zn, i + 1, domain,
                 IF MatchesDomain(domain, zoneDomain)
                 THEN BetterMatch(acc, zn, zoneDomain)
                 ELSE acc)

RECURSIVE ScanZones(_, _, _, _, _)
ScanZones(zones, order, k, domain, acc) ==
    IF k > Len(order) THEN acc
    ELSE ScanZones(zones, order, k + 1, domain,
             ScanDomains(zones, order[k], 1, domain, acc))

\* GetZone for one iteration order of the zone map; the result is the name
\* of the zone the returned pointer belongs to, or Nil.
GetZoneOrd(zones, order, domain) ==
    ScanZones(zones, order, 1, WithDot(domain), [zone |-> Nil, len |-> 0]).zone

\* The iteration orders `range c.Zones` can take: Go leaves the order of a
\* map range unspecified, so every permutation of the keys is possible.
Orders(S) ==
    {o \in [1..Cardinality(S) -> S] :
        \A i, j \in 1..Cardinality(S) : i # j => o[i] # o[j]}

\* The zones a call of GetZone can return.
GetZone(zones, domain) ==
    {GetZoneOrd(zones, o, domain) : o \in Orders(DOMAIN zones)}

(***************************************************************************)
(* Parsers of the Go standard library, restricted to the inputs used here. *)
(***************************************************************************)
DigitVal ==
    [c \in {"0", "1", "2", "3", "4", "5", "6", "7", "8", "9"} |->
        CASE c = "0" -> 0 [] c = "1" -> 1 [] c = "2" -> 2 [] c = "3" -> 3
          [] c = "4" -> 4 [] c = "5" -> 5 [] c = "6" -> 6 [] c = "7" -> 7
          [] c = "8" -> 8 [] c = "9" -> 9]

\* The value of a string of decimal digits, -1 when it is empty or holds
\* another character.
RECURSIVE ParseUint(_)
ParseUint(s) ==
    IF Len(s) = 0 THEN -1
    ELSE LET c == SubSeq(s, Len(s), Len(s))
         IN  IF c \notin DOMAIN DigitVal THEN -1
             ELSE IF Len(s) = 1 THEN DigitVal[c]
             ELSE LET hi == ParseUint(SubSeq(s, 1, Len(s) - 1))
                  IN  IF hi < 0 THEN -1 ELSE 10 * hi + DigitVal[c]

\* time.ParseDuration for a signed whole number followed by one of the
\* units s, m, h (and the bare "0"); the value is in seconds.
ParseDuration(s) ==
    LET neg == HasPrefix(s, "-")
        body == IF neg \/ HasPrefix(s, "+") THEN SubSeq(s, 2, Len(s)) ELSE s
        unit == IF Len(body) = 0 THEN "" ELSE SubSeq(body, Len(body), Len(body))
        num == IF Len(body) = 0 THEN -1 ELSE ParseUint(SubSeq(body, 1, Len(body) - 1))
        mult == CASE unit = "s" -> 1 [] unit = "m" -> 60 [] unit = "h" -> 3600
                  [] OTHER -> 0
    IN  IF body = "0" THEN [ok |-> TRUE, d |-> 0]
        ELSE IF mult = 0 \/ num < 0 THEN [ok |-> FALSE, d |-> 0]
        ELSE [ok |-> TRUE, d |-> (IF neg THEN 0 - num * mult ELSE num * mult)]

\* The position of the first "." of s, 0 when there is none.
RECURSIVE IndexDot(_, _)
IndexDot(s, i) ==
    IF i > Len(s) THEN 0
    ELSE IF SubSeq(s, i, i) = "." THEN i
    ELSE IndexDot(s, i + 1)

RECURSIVE SplitDots(_)
SplitDots(s) ==
    LET i == IndexDot(s, 1)
    IN  IF i = 0 THEN <<s>>
        ELSE <<SubSeq(s, 1, i - 1)>> \o SplitDots(SubSeq(s, i + 1, Len(s)))

\* One field of a dotted quad: 1..3 digits, no leading zero, at most 255.
Octet(f) ==
    LET v == ParseUint(f)
    IN  IF Len(f) > 3 \/ v < 0 \/ v > 255 \/ (Len(f) > 1 /\ HasPrefix(f, "0"))
        THEN -1 ELSE v

\* The IPv6 literals the model's inputs use, with their 16 bytes.
IPv6Literals ==
    [t \in {"::1", "::2", "fd7a:115c:a1e0::53", "fd7a:115c:a1e1::53",
            "fd7b:115c:a1e0::53", "2001:db8::1"} |->
        CASE t = "::1" -> <<0, 0, 0, 0, 0, 0, 0, 0, 0, 0, 0, 0, 0, 0, 0, 1>>
          [] t = "::2" -> <<0, 0, 0, 0, 0, 0, 0, 0, 0, 0, 0, 0, 0, 0, 0, 2>>
          [] t = "fd7a:115c:a1e1::53" ->
                <<253, 122, 17, 92, 161, 225, 0, 0, 0, 0, 0, 0, 0, 0, 0, 83>>
          [] t = "fd7b:115c:a1e0::53" ->
                <<253, 123, 17, 92, 161, 224, 0, 0, 0, 0, 0, 0, 0, 0, 0, 83>>
          [] t = "fd7a:115c:a1e0::53" ->
                <<253, 122, 17, 92, 161, 224, 0, 0, 0, 0, 0, 0, 0, 0, 0, 83>>
          [] t = "2001:db8::1" ->
                <<32, 1, 13, 184, 0, 0, 0, 0, 0, 0, 0, 0, 0, 0, 0, 1>>]

\* net.ParseIP / netip.ParseAddr: a dotted quad, one of the IPv6 literals,
\* or no address.
ParseIP(s) ==
    LET f == SplitDots(s)
    IN  IF Len(f) = 4 /\ \A i \in 1..4 : Octet(f[i]) >= 0
        THEN [kind |-> "v4", b |-> [i \in 1..4 |-> Octet(f[i])]]
        ELSE IF s \in DOMAIN IPv6Literals
        THEN [kind |-> "v6", b |-> IPv6Literals[s]]
        ELSE [kind |-> "none", b |-> <<>>]

\* The CIDR texts the model's configurations use: address bytes and prefix
\* length as written, before masking.
CIDRTexts ==
    [t \in {"fd7a:115c:a1e0:b1a::/64", "fd7a:115c:a1e0:b1a:0:1::/96",
            "fd7a:115c:a1e0:b1a:1::/80", "fd7a:115c:a1e0:b1a:1::/64",
            "fd7a:115c:a1e0:b1a::/60", "2001:db8::/64"} |->
        CASE t = "fd7a:115c:a1e0:b1a::/64" ->
                [ip |-> <<253, 122, 17, 92, 161, 224, 11, 26, 0, 0, 0, 0, 0, 0, 0, 0>>,
                 bits |-> 64]
          [] t = "fd7a:115c:a1e0:b1a:0:1::/96" ->
                [ip |-> <<253, 122, 17, 92, 161, 224, 11, 26, 0, 0, 0, 1, 0, 0, 0, 0>>,
                 bits |-> 96]
          [] t = "fd7a:115c:a1e0:b1a:1::/80" ->
                [ip |-> <<253, 122, 17, 92, 161, 224, 11, 26, 0, 1, 0, 0, 0, 0, 0, 0>>,
                 bits |-> 80]
          [] t = "fd7a:115c:a1e0:b1a:1::/64" ->
                [ip |-> <<253, 122, 17, 92, 161, 224, 11, 26, 0, 1, 0, 0, 0, 0, 0, 0>>,
                 bits |-> 64]
          [] t = "fd7a:115c:a1e0:b1a::/60" ->
                [ip |-> <<253, 122, 17, 92, 161, 224, 11, 26, 0, 0, 0, 0, 0, 0, 0, 0>>,
                 bits |-> 60]
          [] t = "2001:db8::/64" ->
                [ip |-> <<32, 1, 13, 184, 0, 0, 0, 0, 0, 0, 0, 0, 0, 0, 0, 0>>,
                 bits |-> 64]]

\* 2^n for the bit counts of one byte.
Pow2(n) ==
    CASE n = 0 -> 1 [] n = 1 -> 2 [] n = 2 -> 4 [] n = 3 -> 8 [] n = 4 -> 16
      [] n = 5 -> 32 [] n = 6 -> 64 [] n = 7 -> 128 [] OTHER -> 256

\* The network address of ip/bits: the bits after the prefix are cleared.
MaskIP(ip, bits) ==
    [i \in 1..16 |->
        LET k == bits - 8 * (i - 1)
        IN  IF k >= 8 THEN ip[i]
            ELSE IF k <= 0 THEN 0
            ELSE ip[i] - (ip[i] % Pow2(8 - k))]

\* net.ParseCIDR: the network (masked address) of a CIDR text.
ParseCIDR(s) ==
    IF s \in DOMAIN CIDRTexts
    THEN [ok |-> TRUE, ip |-> MaskIP(CIDRTexts[s].ip, CIDRTexts[s].bits)]
    ELSE [ok |-> FALSE, ip |-> <<>>]

(***************************************************************************)
(* Configuration: defaults and validation.                                 *)
(* A nil *uint16 TranslateID is NoID; a nil *CacheConfig has set = FALSE.  *)
(***************************************************************************)
NoID == -1

DefaultRetries == 3

DefaultMaxSize == 10000

DefaultServers == <<"8.8.8.8:53", "1.1.1.1:53">>

DefaultPrefix == "fd7a:115c:a1e0:b1a::/64"

NoCache == [set |-> FALSE, MaxSize |-> 0, TTL |-> ""]

HasReflection(z) == z.ReflectedDomain # ""

Has4via6(z) == z.TranslateID # NoID /\ z.TranslateID # 0

GetTranslateID(z) == IF z.TranslateID # NoID THEN z.TranslateID ELSE 0

setZoneDefaults(global, zoneName, z) ==
    LET b1 == IF Len(z.Backend.DNSServers) = 0
              THEN [z.Backend EXCEPT !.DNSServers = global.Backend.DNSServers]
              ELSE z.Backend
        b2 == IF b1.Timeout = "" THEN [b1 EXCEPT !.Timeout = global.Backend.Timeout] ELSE b1
        b3 == IF b2.Retries = 0 THEN [b2 EXCEPT !.Retries = global.Backend.Retries] ELSE b2
        pfx == IF z.TranslateID # NoID /\ z.PrefixSubnet = ""
               THEN DefaultPrefix ELSE z.PrefixSubnet
        cch == IF ~z.Cache.set /\ global.Cache.MaxSize > 0
               THEN [set |-> TRUE, MaxSize |-> global.Cache.MaxSize,
                     TTL |-> global.Cache.TTL]
               ELSE z.Cache
    IN  [err |-> zoneName = "" \/ Len(z.Domains) = 0 \/ z.TranslateID = 0,
         zone |-> [z EXCEPT !.Backend = b3, !.PrefixSubnet = pfx, !.Cache = cch]]

setDefaults(c) ==
    LET gb == c.Global.Backend
        gc == c.Global.Cache
        global ==
            [Backend |->
                [DNSServers |-> IF Len(gb.DNSServers) = 0 THEN DefaultServers
                                ELSE gb.DNSServers,
                 Timeout |-> IF gb.Timeout = "" THEN "5s" ELSE gb.Timeout,
                 Retries |-> IF gb.Retries = 0 THEN DefaultRetries ELSE gb.Retries],
             Cache |->
                [MaxSize |-> IF gc.MaxSize = 0 THEN DefaultMaxSize ELSE gc.MaxSize,
                 TTL |-> IF gc.TTL = "" THEN "300s" ELSE gc.TTL]]
    IN  [err |-> \E n \in DOMAIN c.Zones : setZoneDefaults(global, n, c.Zones[n]).err,
         cfg |-> [Global |-> global,
                  Zones |-> [n \in DOMAIN c.Zones |->
                                setZoneDefaults(global, n, c.Zones[n]).zone]]]

\* ValidateZones without the search for a repeated translateID.
ValidateZonesNoDup(c) ==
    /\ DOMAIN c.Zones # {}
    /\ \A n \in DOMAIN c.Zones :
          LET z == c.Zones[n]
          IN  /\ Len(z.Domains) # 0
              /\ Len(z.Backend.DNSServers) # 0
              /\ z.Backend.Timeout # "" => ParseDuration(z.Backend.Timeout).ok
              /\ HasReflection(z) => z.ReflectedDomain # ""
              /\ Has4via6(z) => GetTranslateID(z) # 0 /\ HasReflection(z)
              /\ z.Cache.set /\ z.Cache.TTL # "" => ParseDuration(z.Cache.TTL).ok
              /\ ~(z.AllowExternalClients /\ Has4via6(z))

\* ValidateZones without the check on zones open to external clients.
ValidateZonesAnyClient(c) ==
    /\ DOMAIN c.Zones # {}
    /\ \A n \in DOMAIN c.Zones :
          LET z == c.Zones[n]
          IN  /\ Len(z.Domains) # 0
              /\ Len(z.Backend.DNSServers) # 0
              /\ z.Backend.Timeout # "" => ParseDuration(z.Backend.Timeout).ok
              /\ HasReflection(z) => z.ReflectedDomain # ""
              /\ Has4via6(z) =>
                    /\ GetTranslateID(z) # 0
                    /\ \A m \in DOMAIN c.Zones \ {n} :
                          Has4via6(c.Zones[m]) =>
                              GetTranslateID(c.Zones[m]) # GetTranslateID(z)
                    /\ HasReflection(z)
              /\ z.Cache.set /\ z.Cache.TTL # "" => ParseDuration(z.Cache.TTL).ok

\* ValidateZones returns nil: no zone fails a check and no two 4via6 zones
\* share a translateID.
ValidateZones(c) ==
    /\ DOMAIN c.Zones # {}
    /\ \A n \in DOMAIN c.Zones :
          LET z == c.Zones[n]
          IN  /\ Len(z.Domains) # 0
              /\ Len(z.Backend.DNSServers) # 0
              /\ z.Backend.Timeout # "" => ParseDuration(z.Backend.Timeout).ok
              /\ HasReflection(z) => z.ReflectedDomain # ""
              /\ Has4via6(z) =>
                    /\ GetTranslateID(z) # 0
                    /\ \A m \in DOMAIN c.Zones \ {n} :
                          Has4via6(c.Zones[m]) =>
                              GetTranslateID(c.Zones[m]) # GetTranslateID(z)
                    /\ HasReflection(z)
              /\ z.Cache.set /\ z.Cache.TTL # "" => ParseDuration(z.Cache.TTL).ok
              /\ ~(z.AllowExternalClients /\ Has4via6(z))

(***************************************************************************)
(* The 4via6 translator (package via6).                                    *)
(***************************************************************************)
Via6Prefix8 == <<253, 122, 17, 92, 161, 224, 11, 26>>

Via6Prefix10 == <<253, 122, 17, 92, 161, 224, 11, 26, 0, 0>>

is4via6Prefix(ip) ==
    /\ Len(ip) = 16
    /\ \A i \in 1..Len(Via6Prefix8) : ip[i] = Via6Prefix8[i]

\* newZoneTranslator without the test of the prefix against the 4via6 space.
newZoneTranslatorAnyPrefix(zoneName, z) ==
    LET prefixSubnet == IF z.PrefixSubnet = "" THEN DefaultPrefix ELSE z.PrefixSubnet
        net == ParseCIDR(prefixSubnet)
    IN  IF z.TranslateID = NoID \/ z.TranslateID = 0 THEN [ok |-> FALSE]
        ELSE IF ~net.ok THEN [ok |-> FALSE]
        ELSE [ok |-> TRUE,
              zoneName |-> zoneName,
              rule |-> [ReflectedDomain |-> z.ReflectedDomain,
                        PrefixSubnet |-> prefixSubnet,
                        TranslateID |-> z.TranslateID,
                        PrefixNetwork |-> net.ip,
                        DNSServers |-> z.Backend.DNSServers]]

newZoneTranslator(zoneName, z) ==
    LET prefixSubnet == IF z.PrefixSubnet = "" THEN DefaultPrefix ELSE z.PrefixSubnet
        net == ParseCIDR(prefixSubnet)
    IN  IF z.TranslateID = NoID \/ z.TranslateID = 0 THEN [ok |-> FALSE]
        ELSE IF ~net.ok THEN [ok |-> FALSE]
        ELSE IF ~is4via6Prefix(net.ip) THEN [ok |-> FALSE]
        ELSE [ok |-> TRUE,
              zoneName |-> zoneName,
              rule |-> [ReflectedDomain |-> z.ReflectedDomain,
                        PrefixSubnet |-> prefixSubnet,
                        TranslateID |-> z.TranslateID,
                        PrefixNetwork |-> net.ip,
                        DNSServers |-> z.Backend.DNSServers]]

NewTranslator(c) ==
    LET v6 == {n \in DOMAIN c.Zones : Has4via6(c.Zones[n])}
    IN  [ok |-> \A n \in v6 : newZoneTranslator(n, c.Zones[n]).ok,
         zones |-> [n \in v6 |-> newZoneTranslator(n, c.Zones[n])]]

\* isVia6Address comparing the first 8 bytes only.
isVia6AddressShort(ip) ==
    /\ Len(ip) = 16
    /\ \A i \in 1..Len(Via6Prefix8) : ip[i] = Via6Prefix8[i]

isVia6Address(ip) ==
    /\ Len(ip) = 16
    /\ \A i \in 1..Len(Via6Prefix10) : ip[i] = Via6Prefix10[i]

\* The results TranslateFromVia6 can return (the zone translators are
\* ranged over in map order; the first with the translateID is returned).
TranslateFromVia6(t, via6IP) ==
    IF Len(via6IP) # 16 \/ ~isVia6Address(via6IP)
    THEN {[ok |-> FALSE, domain |-> "", ipv4 |-> <<>>]}
    ELSE LET translateID == (via6IP[11] * 256 + via6IP[12]) % 65536
             ipv4 == SubSeq(via6IP, 13, 16)
             hits == {n \in DOMAIN t.zones : t.zones[n].rule.TranslateID = translateID}
         IN  IF hits = {} THEN {[ok |-> FALSE, domain |-> "", ipv4 |-> <<>>]}
             ELSE {[ok |-> TRUE, domain |-> t.zones[n].rule.ReflectedDomain,
                    ipv4 |-> ipv4] : n \in hits}

\* The name resolveReflectedDomain asks the zone's servers for.
ReflectedName(z, reflectedDomain, originalDomain) ==
    LET hit == {i \in 1..Len(z.Domains) : MatchesDomain(originalDomain, z.Domains[i])}
        first == CHOOSE i \in hit : \A j \in hit : i <= j
        zoneDomain == z.Domains[first]
        baseDomain == WithDot(TrimPrefix(zoneDomain, "*."))
        od == WithDot(originalDomain)
    IN  WithDot(IF hit # {} /\ HasPrefix(zoneDomain, "*.") /\ HasSuffix(od, baseDomain)
                THEN TrimSuffix(od, baseDomain) \o WithDot(reflectedDomain)
                ELSE reflectedDomain)

\* The first A record of the first exchange that succeeds with rcode 0;
\* outcomes[i] is what the exchange with server i returns.
RECURSIVE FirstA(_, _, _)
FirstA(servers, outcomes, i) ==
    IF i > Len(servers) THEN [ok |-> FALSE, ip |-> <<>>, tried |-> Len(servers)]
    ELSE LET o == outcomes[i]
             as == {k \in 1..Len(o.answer) : o.answer[k].rrtype = "A"}
         IN  IF o.err \/ o.rcode # 0 \/ as = {}
             THEN FirstA(servers, outcomes, i + 1)
             ELSE [ok |-> TRUE,
                   ip |-> o.answer[CHOOSE k \in as : \A j \in as : k <= j].a,
                   tried |-> i]

resolveReflectedDomain(zt, z, originalDomain, outcomes) ==
    LET lit == ParseIP(zt.rule.ReflectedDomain)
    IN  IF lit.kind = "v4" THEN [ok |-> TRUE, ip |-> lit.b, tried |-> 0, asked |-> ""]
        ELSE IF lit.kind = "v6" THEN [ok |-> FALSE, ip |-> <<>>, tried |-> 0, asked |-> ""]
        ELSE LET r == FirstA(zt.rule.DNSServers, outcomes, 1)
             IN  [ok |-> r.ok, ip |-> r.ip, tried |-> r.tried,
                  asked |-> ReflectedName(z, zt.rule.ReflectedDomain, originalDomain)]

CreateVia6Address(zt, z, domain, outcomes) ==
    IF zt.rule.ReflectedDomain = ""
    THEN [ok |-> FALSE, ip |-> <<>>, tried |-> 0, asked |-> "", ipv4 |-> <<>>]
    ELSE LET r == resolveReflectedDomain(zt, z, domain, outcomes)
         IN  IF ~r.ok
             THEN [ok |-> FALSE, ip |-> <<>>, tried |-> r.tried, asked |-> r.asked,
                   ipv4 |-> <<>>]
             ELSE [ok |-> TRUE,
                   ip |-> [i \in 1..16 |->
                            IF i = 11 THEN (zt.rule.TranslateID \div 256) % 256
                            ELSE IF i = 12 THEN zt.rule.TranslateID % 256
                            ELSE IF i >= 13 THEN r.ip[i - 12]
                            ELSE zt.rule.PrefixNetwork[i]],
                   tried |-> r.tried, asked |-> r.asked, ipv4 |-> r.ip]

\* TranslateToVia6 with `sel` the zone its call of GetZone returned.
TranslateToVia6(t, zones, domain, sel, outcomes) ==
    IF sel = Nil \/ ~Has4via6(zones[sel]) \/ sel \notin DOMAIN t.zones
    THEN [ok |-> FALSE, ip |-> <<>>, tried |-> 0, asked |-> "", ipv4 |-> <<>>]
    ELSE CreateVia6Address(t.zones[sel], zones[sel], WithDot(domain), outcomes)

(***************************************************************************)
(* Configurations the model draws from.                                    *)
(***************************************************************************)
Backend(servers, timeout, retries) ==
    [DNSServers |-> servers, Timeout |-> timeout, Retries |-> retries]

CacheCfg(maxSize, ttl) == [set |-> TRUE, MaxSize |-> maxSize, TTL |-> ttl]

RawZone(domains, backend, reflected, id, prefix, cache, ext) ==
    [Domains |-> domains, Backend |-> backend, ReflectedDomain |-> reflected,
     TranslateID |-> id, PrefixSubnet |-> prefix, Cache |-> cache,
     AllowExternalClients |-> ext]

Inherit == Backend(<<>>, "", 0)

ZonePool ==
    [n \in {"alpha", "beta", "gamma", "delta", "eps", "dup", "bad", "ext6",
            "garbled", "half", "zero", "short"} |->
        CASE n = "alpha" ->
                RawZone(<<"*.c">>, Inherit, "10.1.2.3", 258, "", NoCache, FALSE)
          [] n = "beta" ->
                RawZone(<<"a.c.", "*.e">>, Backend(<<"10.0.0.1:53">>, "1s", 1),
                        "", NoID, "", CacheCfg(1, "1s"), TRUE)
          [] n = "gamma" ->
                RawZone(<<"*.c.", "x.org">>,
                        Backend(<<"10.0.0.1:53", "10.0.0.2:53">>, "", 2),
                        "r.d", 2, "fd7a:115c:a1e0:b1a:1::/80", CacheCfg(2, "2s"), FALSE)
          [] n = "delta" ->
                RawZone(<<"*">>, Inherit, "", NoID, "", NoCache, FALSE)
          [] n = "eps" ->
                RawZone(<<"*.b.c", "c">>, Backend(<<"10.0.0.2:53">>, "2s", 1),
                        "r.d.", 515, "fd7a:115c:a1e0:b1a:0:1::/96", NoCache, FALSE)
          [] n = "dup" ->
                RawZone(<<"*.f">>, Inherit, "10.9.9.9", 258, "", NoCache, FALSE)
          [] n = "bad" ->
                RawZone(<<"*.g">>, Inherit, "r.d", 3, "2001:db8::/64", NoCache, FALSE)
          [] n = "ext6" ->
                RawZone(<<"*.h">>, Inherit, "r.d", 7, "", NoCache, TRUE)
          [] n = "garbled" ->
                RawZone(<<"*.i">>, Inherit, "r.d", 8, "invalid-subnet", NoCache, FALSE)
          [] n = "half" ->
                RawZone(<<"*.j">>, Inherit, "", 9, "", NoCache, FALSE)
          [] n = "zero" ->
                RawZone(<<"*.k">>, Inherit, "r.d", 0, "", NoCache, FALSE)
          [] n = "short" ->
                RawZone(<<"*.l">>, Inherit, "r.d", 10, "fd7a:115c:a1e0:b1a::/60",
                        NoCache, FALSE)]

GlobalPool ==
    {[Backend |-> Inherit, Cache |-> [MaxSize |-> 0, TTL |-> ""]],
     [Backend |-> Backend(<<"9.9.9.9:53">>, "2s", 1),
      Cache |-> [MaxSize |-> 2, TTL |-> "1s"]]}

\* The zone tables of the pool with one or two zones.
RawConfigs ==
    {[Global |-> g, Zones |-> [n \in S |-> ZonePool[n]]] :
        g \in GlobalPool,
        S \in {T \in SUBSET DOMAIN ZonePool : Cardinality(T) \in {1, 2}}}

\* config.Load followed by NewServerWithRuntime: the configuration the
\* server runs; ok is FALSE when loading or construction fails.
LoadAndBuild(raw) ==
    LET d == setDefaults(raw)
    IN  [ok |-> ~d.err /\ ValidateZones(d.cfg) /\ NewTranslator(d.cfg).ok,
         cfg |-> d.cfg]

RunnableConfigs ==
    {LoadAndBuild(raw).cfg : raw \in {r \in RawConfigs : LoadAndBuild(r).ok}}

(***************************************************************************)
(* What an exchange with an upstream server can return.                    *)
(***************************************************************************)
ARecord(ip) == [rrtype |-> "A", a |-> ip]

Exchanges ==
    {[err |-> TRUE, rcode |-> 0, answer |-> <<>>],
     [err |-> FALSE, rcode |-> 3, answer |-> <<>>],
     [err |-> FALSE, rcode |-> 0, answer |-> <<>>],
     [err |-> FALSE, rcode |-> 0, answer |-> <<ARecord(<<192, 168, 1, 1>>)>>],
     [err |-> FALSE, rcode |-> 0,
      answer |-> <<[rrtype |-> "CNAME", a |-> <<>>], ARecord(<<10, 0, 0, 9>>)>>]}

MaxServers == 2

QueryNames == {"a.c.", "a.c", "c.", "b.a.c.", "x.b.c.", "x.org.", "y.e.", "h.ts.net."}

(***************************************************************************)
(* Zone selection and translation on their own.                            *)
(***************************************************************************)
NoProbe == [op |-> "none"]

NoLast == [path |-> "none"]

Idle ==
    /\ tsnet = FALSE
    /\ zoneCaches = <<>>
    /\ now = 0
    /\ served = 0
    /\ last = NoLast
    /\ hist = <<>>

InitZones ==
    /\ config \in RunnableConfigs
    /\ via6Trans = NewTranslator(config)
    /\ probe = NoProbe
    /\ Idle

\* Two calls of GetZone for the same name on the same zone table.
SelectZone(name) ==
    /\ \E r1 \in GetZone(config.Zones, name), r2 \in GetZone(config.Zones, name) :
          probe' = [op |-> "GetZone", name |-> name, zone |-> r1, again |-> r2]
    /\ UNCHANGED <<config, via6Trans, tsnet, zoneCaches, now, served, last, hist>>

\* TranslateToVia6(name), then TranslateFromVia6 of its result.
Translate(name) ==
    /\ \E sel \in GetZone(config.Zones, name),
          outcomes \in [1..MaxServers -> Exchanges] :
          LET x == TranslateToVia6(via6Trans, config.Zones, name, sel, outcomes)
          IN  \E rev \in TranslateFromVia6(via6Trans, x.ip) :
                  probe' = [op |-> "Translate", name |-> name, zone |-> sel,
                            x |-> x, rev |-> rev]
    /\ UNCHANGED <<config, via6Trans, tsnet, zoneCaches, now, served, last, hist>>

\* Byte x with bit b inverted.
FlipBit(x, b) == IF (x \div Pow2(b)) % 2 = 1 THEN x - Pow2(b) ELSE x + Pow2(b)

\* The address fd7a:115c:a1e0:b1a:0:<id>:10.1.2.3.
Via6With(id) == Via6Prefix10 \o <<id \div 256, id % 256, 10, 1, 2, 3>>

\* The translateIDs of the pool's zones and one no zone has.
ReverseIDs == {258, 2, 515, 999}

\* Inputs of TranslateFromVia6: well-formed addresses, the same with one
\* bit of the first 10 bytes inverted, and inputs of other lengths.
ReverseInputs ==
    {Via6With(id) : id \in ReverseIDs}
    \cup {[Via6With(id) EXCEPT ![i] = FlipBit(@, b)] :
             id \in {258}, i \in 1..10, b \in 0..7}
    \cup {<<>>, <<10, 1, 2, 3>>, SubSeq(Via6With(258), 1, 15), Via6With(258) \o <<0>>}

\* TranslateFromVia6 of an address.
Reverse(via6IP) ==
    /\ \E rev \in TranslateFromVia6(via6Trans, via6IP) :
          probe' = [op |-> "Reverse", ip |-> via6IP, rev |-> rev]
    /\ UNCHANGED <<config, via6Trans, tsnet, zoneCaches, now, served, last, hist>>

NextZones ==
    \/ \E name \in QueryNames : SelectZone(name)
    \/ \E name \in QueryNames : Translate(name)

SpecZones == InitZones /\ [][NextZones]_vars

\* TranslateFromVia6 on its own, under every configuration.
NextReverse == \E via6IP \in ReverseInputs : Reverse(via6IP)

SpecReverse == InitZones /\ [][NextReverse]_vars

(***************************************************************************)
(* Properties of zone selection and translation (checked under SpecZones). *)
(***************************************************************************)
\* The lengths, as configured, of the patterns of zone z that match name.
MatchLens(z, name) ==
    {Len(z.Domains[i]) : i \in {j \in 1..Len(z.Domains) : MatchesDomain(name, z.Domains[j])}}

\* C7: if GetZone returns zone z, a pattern of z matches the name and no
\* other zone has a strictly longer matching pattern; if it returns no zone,
\* no pattern of any zone matches the name.
C7_SelectedZoneHasLongestMatch ==
    probe.op = "GetZone" =>
        LET zs == config.Zones
        IN  IF probe.zone = Nil
            THEN \A n \in DOMAIN zs : MatchLens(zs[n], probe.name) = {}
            ELSE /\ MatchLens(zs[probe.zone], probe.name) # {}
                 /\ \A n \in DOMAIN zs \ {probe.zone} :
                       \A l \in MatchLens(zs[n], probe.name) :
                           \E m \in MatchLens(zs[probe.zone], probe.name) : l <= m

\* C7 witness: a zone was selected although another zone matches the name
\* too, with a shorter pattern; and a name no zone matches got no zone.
C7_Witness ==
    /\ probe.op = "GetZone"
    /\ probe.zone # Nil
    /\ \E n \in DOMAIN config.Zones \ {probe.zone} :
          \E l \in MatchLens(config.Zones[n], probe.name) :
              \A m \in MatchLens(config.Zones[probe.zone], probe.name) : l < m

\* C8: zone selection is deterministic: two calls of GetZone for the same
\* name on the same zone table return the same zone.
C8_GetZoneDeterministic ==
    probe.op = "GetZone" => probe.zone = probe.again

\* C2: a synthetic address starts with fd7a 115c a1e0 0b1a 0000, carries the
\* nonzero translateID of the selected zone big-endian in bytes 10..11 and
\* the resolved IPv4 address in bytes 12..15.
C2_Via6Layout ==
    probe.op = "Translate" /\ probe.x.ok =>
        /\ \A i \in 1..10 : probe.x.ip[i] = Via6Prefix10[i]
        /\ probe.x.ip[11] * 256 + probe.x.ip[12] = config.Zones[probe.zone].TranslateID
        /\ config.Zones[probe.zone].TranslateID # 0
        /\ \A i \in 1..4 : probe.x.ip[12 + i] = probe.x.ipv4[i]

\* C3: TranslateFromVia6 of a synthetic address returns the reflectedDomain
\* of the zone selected for the name and the embedded IPv4 address.
C3_RoundTrip ==
    probe.op = "Translate" /\ probe.x.ok =>
        /\ probe.rev.ok
        /\ probe.rev.domain = config.Zones[probe.zone].ReflectedDomain
        /\ \A i \in 1..4 : probe.rev.ipv4[i] = probe.x.ipv4[i]

(***************************************************************************)
(* DNS messages (github.com/miekg/dns) as far as the handler uses them.    *)
(***************************************************************************)
RcodeSuccess == 0

RcodeServerFailure == 2

RcodeNameError == 3

Question(name, qtype) == [Name |-> name, Qtype |-> qtype]

RR(name, rrtype, ttl, data) == [Name |-> name, Rrtype |-> rrtype, Ttl |-> ttl, Data |-> data]

\* dns.Msg.Copy: a new message with the header fields and a copy of every
\* question and record.
Copy(m) ==
    [Id |-> m.Id, Response |-> m.Response, Authoritative |-> m.Authoritative,
     Rcode |-> m.Rcode,
     Question |-> [i \in 1..Len(m.Question) |->
                      Question(m.Question[i].Name, m.Question[i].Qtype)],
     Answer |-> [i \in 1..Len(m.Answer) |->
                    RR(m.Answer[i].Name, m.Answer[i].Rrtype, m.Answer[i].Ttl,
                       m.Answer[i].Data)]]

\* Msg.SetReply(r): a success reply with r's ID and question section.
SetReply(r) ==
    [Id |-> r.Id, Response |-> TRUE, Authoritative |-> FALSE,
     Rcode |-> RcodeSuccess, Question |-> r.Question, Answer |-> <<>>]

\* Msg.SetRcode(r, rcode).
SetRcode(r, rcode) == [SetReply(r) EXCEPT !.Rcode = rcode]

(***************************************************************************)
(* The zone cache (internal/cache/cache.go).                               *)
(***************************************************************************)
SizeofMsg == 136

SizeofQuestion == 24

SizeofRR == 56

SizeofCacheEntry == 32

RECURSIVE SumLen(_, _)
SumLen(seq, i) ==
    IF i > Len(seq) THEN 0 ELSE Len(seq[i].Name) + SumLen(seq, i + 1)

calculateDNSMsgSize(msg) ==
    SizeofMsg
    + Len(msg.Question) * SizeofQuestion + SumLen(msg.Question, 1)
    + Len(msg.Answer) * (24 + SizeofRR) + SumLen(msg.Answer, 1)

calculateEntrySize(key, response) ==
    Len(key) + calculateDNSMsgSize(response) + SizeofCacheEntry + (Len(key) + 8 + 16)

NewZoneCache(maxSize, ttl, zoneName) ==
    [entries |-> <<>>, maxSize |-> maxSize, ttl |-> ttl, zoneName |-> zoneName,
     memoryUsage |-> 0, stopped |-> FALSE]

\* An entry is expired when time.Now() is after its ExpiresAt.
ExpiredNotBefore(entry, t) == t >= entry.ExpiresAt

Expired(entry, t) == t > entry.ExpiresAt

Restrict(f, S) == [x \in S |-> f[x]]

RECURSIVE SumSizes(_, _)
SumSizes(entries, keys) ==
    IF keys = {} THEN 0
    ELSE LET k == CHOOSE x \in keys : TRUE
         IN  calculateEntrySize(k, entries[k].Response) + SumSizes(entries, keys \ {k})

Get(c, key, t) ==
    IF key \notin DOMAIN c.entries THEN [found |-> FALSE]
    ELSE IF Expired(c.entries[key], t) THEN [found |-> FALSE]
    ELSE [found |-> TRUE, msg |-> Copy(c.entries[key].Response)]

evictExpired(c, t) ==
    LET gone == {k \in DOMAIN c.entries : Expired(c.entries[k], t)}
    IN  [c EXCEPT !.entries = Restrict(c.entries, DOMAIN c.entries \ gone),
                  !.memoryUsage = c.memoryUsage - SumSizes(c.entries, gone)]

\* The key a scan keeping the entry that expires last would settle on.
RECURSIVE NewestKey(_, _, _, _)
NewestKey(entries, order, i, newest) ==
    IF i > Len(order) THEN newest
    ELSE NewestKey(entries, order, i + 1,
             IF newest = "" \/ entries[order[i]].ExpiresAt > entries[newest].ExpiresAt
             THEN order[i] ELSE newest)

\* The key evictOldest settles on when the map is ranged over in `order`:
\* the first entry, replaced by each later one that expires strictly before.
RECURSIVE OldestKey(_, _, _, _)
OldestKey(entries, order, i, oldest) ==
    IF i > Len(order) THEN oldest
    ELSE OldestKey(entries, order, i + 1,
             IF oldest = "" \/ entries[order[i]].ExpiresAt < entries[oldest].ExpiresAt
             THEN order[i] ELSE oldest)

evictOldest(c, order) ==
    IF DOMAIN c.entries = {} THEN c
    ELSE LET oldestKey == OldestKey(c.entries, order, 1, "")
         IN  IF oldestKey = "" THEN c
             ELSE [c EXCEPT
                    !.entries = Restrict(c.entries, DOMAIN c.entries \ {oldestKey}),
                    !.memoryUsage = c.memoryUsage
                        - calculateEntrySize(oldestKey, c.entries[oldestKey].Response)]

\* The expiry time Set gives a new entry: time.Now().Add(zc.ttl).
ExpiresAtNoTTL(t, ttl) == t

ExpiresAt(t, ttl) == t + ttl

\* Set with `order` the order in which evictOldest, when it runs, ranges
\* over the entries left after evictExpired.
SetOrd(c, key, response, t, order) ==
    LET c1 == IF Cardinality(DOMAIN c.entries) >= c.maxSize
              THEN evictExpired(c, t) ELSE c
        c2 == IF Cardinality(DOMAIN c.entries) >= c.maxSize
                 /\ Cardinality(DOMAIN c1.entries) >= c1.maxSize
              THEN evictOldest(c1, order) ELSE c1
        entry == [Response |-> Copy(response), ExpiresAt |-> ExpiresAt(t, c.ttl)]
    IN  [c2 EXCEPT
           !.entries = [k \in DOMAIN c2.entries \cup {key} |->
                           IF k = key THEN entry ELSE c2.entries[k]],
           !.memoryUsage = c2.memoryUsage + calculateEntrySize(key, response)]

\* The caches a call of Set can leave behind.
Set(c, key, response, t) ==
    LET left == DOMAIN (IF Cardinality(DOMAIN c.entries) >= c.maxSize
                        THEN evictExpired(c, t) ELSE c).entries
    IN  {SetOrd(c, key, response, t, o) : o \in Orders(left)}

Clear(c) == [c EXCEPT !.entries = <<>>, !.memoryUsage = 0]

\* A sweep that removes nothing.
cleanupExpiredIdle(c, t) == c

cleanupExpired(c, t) == evictExpired(c, t)

DigitChar == <<"0", "1", "2", "3", "4", "5", "6", "7", "8", "9">>

\* strconv.Itoa for a natural number.
RECURSIVE Itoa(_)
Itoa(n) ==
    IF n < 10 THEN DigitChar[n + 1]
    ELSE Itoa(n \div 10) \o DigitChar[(n % 10) + 1]

\* net.IP.String of a 4-byte or 16-byte address.
IPString(b) ==
    IF Len(b) = 4
    THEN Itoa(b[1]) \o "." \o Itoa(b[2]) \o "." \o Itoa(b[3]) \o "." \o Itoa(b[4])
    ELSE CHOOSE t \in DOMAIN IPv6Literals : IPv6Literals[t] = b

\* CacheKey; dns.TypeToString[qtype] is the qtype's mnemonic, clientIP the
\* bytes of the client address, the empty tuple for a nil net.IP.
CacheKey(name, qtype, clientIP) ==
    IF Len(clientIP) = 0 THEN name \o ":" \o qtype
    ELSE name \o ":" \o qtype \o ":" \o IPString(clientIP)

(***************************************************************************)
(* One zone cache on its own: Set, Get, Clear, the sweeper and the clock.  *)
(***************************************************************************)
CacheKeys == {"a.c.:A", "a.c.:AAAA", "x.org.:A"}

CacheMsgs ==
    {[SetReply([Id |-> 1, Question |-> <<Question("a.c.", "AAAA")>>])
        EXCEPT !.Authoritative = TRUE,
               !.Answer = <<RR("a.c.", "AAAA", 300,
                               <<253, 122, 17, 92, 161, 224, 11, 26,
                                 0, 0, 1, 2, 10, 1, 2, 3>>)>>],
     SetRcode([Id |-> 2, Question |-> <<Question("x.org.", "A")>>], RcodeNameError)}

NoHist == [live |-> FALSE]

\* Capacities a configuration file can give a zone cache: maxSize is a plain
\* int that neither Load nor ValidateZones restricts, and only 0 is replaced
\* by the global value.
CacheSizes == {-1, 1, 2}

InitCache ==
    /\ \E maxSize \in CacheSizes, ttl \in {1, 2} :
          zoneCaches = [c |-> NewZoneCache(maxSize, ttl, "c")]
    /\ hist = [k \in CacheKeys |-> NoHist]
    /\ probe = NoProbe
    /\ now = 0
    /\ served = 0
    /\ config = <<>>
    /\ via6Trans = <<>>
    /\ tsnet = FALSE
    /\ last = NoLast

CacheSet(key, response) ==
    /\ served < MaxOps
    /\ served' = served + 1
    /\ \E c2 \in Set(zoneCaches.c, key, response, now) :
          /\ zoneCaches' = [zoneCaches EXCEPT !.c = c2]
          /\ hist' = [k \in CacheKeys |->
                        IF k = key THEN [live |-> TRUE, v |-> response, at |-> now]
                        ELSE IF k \in DOMAIN c2.entries THEN hist[k]
                        ELSE NoHist]
    /\ probe' = [op |-> "Set", key |-> key, at |-> now,
                 before |-> [k \in DOMAIN zoneCaches.c.entries |->
                               zoneCaches.c.entries[k].ExpiresAt]]
    /\ UNCHANGED <<config, via6Trans, tsnet, now, last>>

CacheGet(key) ==
    /\ probe' = [op |-> "Get", key |-> key, at |-> now, r |-> Get(zoneCaches.c, key, now)]
    /\ UNCHANGED <<config, via6Trans, tsnet, zoneCaches, now, served, last, hist>>

CacheClear ==
    /\ zoneCaches' = [zoneCaches EXCEPT !.c = Clear(zoneCaches.c)]
    /\ hist' = [k \in CacheKeys |-> NoHist]
    /\ probe' = [op |-> "Clear"]
    /\ UNCHANGED <<config, via6Trans, tsnet, now, served, last>>

\* One tick of the sweeper started by NewZoneCache.
CacheSweep ==
    /\ ~zoneCaches.c.stopped
    /\ LET c2 == cleanupExpired(zoneCaches.c, now)
       IN  /\ zoneCaches' = [zoneCaches EXCEPT !.c = c2]
           /\ hist' = [k \in CacheKeys |->
                         IF k \in DOMAIN c2.entries THEN hist[k] ELSE NoHist]
    /\ probe' = [op |-> "Sweep"]
    /\ UNCHANGED <<config, via6Trans, tsnet, now, served, last>>

Tick ==
    /\ now < MaxTime
    /\ now' = now + 1
    /\ UNCHANGED <<config, via6Trans, tsnet, zoneCaches, served, last, probe, hist>>

NextCache ==
    \/ \E key \in CacheKeys, response \in CacheMsgs : CacheSet(key, response)
    \/ \E key \in CacheKeys : CacheGet(key)
    \/ CacheClear
    \/ CacheSweep
    \/ Tick

SpecCache == InitCache /\ [][NextCache]_vars

\* C10: a Get of key k issued before the ttl of the last Set(k, v) has
\* elapsed, with no Clear and no eviction of k since, is a hit whose message
\* equals v.
C10_GetAfterSet ==
    probe.op = "Get" /\ hist[probe.key].live
        /\ probe.at < hist[probe.key].at + zoneCaches.c.ttl =>
            /\ probe.r.found
            /\ probe.r.msg = hist[probe.key].v

\* C10 witness: a hit some time after the Set, in a cache that is full.
C10_Witness ==
    /\ probe.op = "Get" /\ hist[probe.key].live
    /\ probe.at > hist[probe.key].at
    /\ probe.at < hist[probe.key].at + zoneCaches.c.ttl
    /\ Cardinality(DOMAIN zoneCaches.c.entries) = zoneCaches.c.maxSize
    /\ probe.r.found

(***************************************************************************)
(* The client classifier (internal/dns/server.go).                         *)
(***************************************************************************)
\* The position of the last ":" of s at or before i, 0 when there is none.
RECURSIVE LastColon(_, _)
LastColon(s, i) ==
    IF i = 0 THEN 0
    ELSE IF SubSeq(s, i, i) = ":" THEN i
    ELSE LastColon(s, i - 1)

\* net.SplitHostPort: "host:port" or "[host]:port".
SplitHostPort(hostport) ==
    LET i == LastColon(hostport, Len(hostport))
    IN  IF i = 0 THEN [err |-> TRUE, host |-> ""]
        ELSE IF HasPrefix(hostport, "[")
        THEN IF i >= 3 /\ SubSeq(hostport, i - 1, i - 1) = "]"
             THEN [err |-> FALSE, host |-> SubSeq(hostport, 2, i - 2)]
             ELSE [err |-> TRUE, host |-> ""]
        ELSE IF LastColon(hostport, i - 1) # 0 THEN [err |-> TRUE, host |-> ""]
        ELSE [err |-> FALSE, host |-> SubSeq(hostport, 1, i - 1)]

\* The zero netip.Addr.
NoAddr == [kind |-> "none", b |-> <<>>]

getClientIP(remoteAddr) ==
    LET hp == SplitHostPort(remoteAddr)
    IN  IF hp.err THEN NoAddr ELSE ParseIP(hp.host)

IsValid(ip) == ip.kind # "none"

IsLoopback(ip) ==
    \/ ip.kind = "v4" /\ ip.b[1] = 127
    \/ ip.kind = "v6" /\ ip.b = IPv6Literals["::1"]

\* netip.Addr.AsSlice: nil for the zero Addr.
AsSlice(ip) == ip.b

\* isTailscaleClient taking every address under 100.
isTailscaleClientWide(clientIP) ==
    IF ~IsValid(clientIP) THEN FALSE
    ELSE IF IsLoopback(clientIP) THEN TRUE
    ELSE IF clientIP.kind = "v4" THEN clientIP.b[1] = 100
    ELSE /\ clientIP.b[1] = 253 /\ clientIP.b[2] = 122 /\ clientIP.b[3] = 17
         /\ clientIP.b[4] = 92 /\ clientIP.b[5] = 161 /\ clientIP.b[6] = 224

isTailscaleClient(clientIP) ==
    IF ~IsValid(clientIP) THEN FALSE
    ELSE IF IsLoopback(clientIP) THEN TRUE
    ELSE IF clientIP.kind = "v4"
    THEN clientIP.b[1] = 100 /\ (clientIP.b[2] \div 64) % 4 = 1
    ELSE /\ clientIP.b[1] = 253 /\ clientIP.b[2] = 122 /\ clientIP.b[3] = 17
         /\ clientIP.b[4] = 92 /\ clientIP.b[5] = 161 /\ clientIP.b[6] = 224

isMagicDNSDomain(domain) ==
    HasSuffix(ToLower(TrimSuffix(domain, ".")), ".ts.net")

(***************************************************************************)
(* The forwarder (internal/dns/server.go).                                 *)
(***************************************************************************)
NewForwarder(cfg) == [backends |-> cfg.DNSServers, retries |-> cfg.Retries]

\* The number of exchanges `retries` passes over the backends can make.
Attempts(f) == IF f.retries > 0 THEN f.retries * Len(f.backends) ELSE 0

\* The backend of the i-th exchange: the passes take the backends in list
\* order.
BackendAtReversed(f, i) == f.backends[Len(f.backends) - ((i - 1) % Len(f.backends))]

BackendAt(f, i) == f.backends[((i - 1) % Len(f.backends)) + 1]

\* The first exchange at or after the i-th that returns without error, 0
\* when every one fails.
RECURSIVE FirstOK(_, _, _)
FirstOK(outcomes, i, total) ==
    IF i > total THEN 0
    ELSE IF ~outcomes[i].err THEN i
    ELSE FirstOK(outcomes, i + 1, total)

\* What queryBackend returns for request r when the backend's outcome is o:
\* the backend's reply to r.
UpstreamReply(r, o) ==
    [Id |-> r.Id, Response |-> TRUE, Authoritative |-> FALSE, Rcode |-> o.rcode,
     Question |-> r.Question,
     Answer |-> [i \in 1..Len(o.answer) |->
                    RR(r.Question[1].Name, o.answer[i].rrtype, 60, o.answer[i].a)]]

\* The reply written when every exchange failed.
FailureReplyNoQuestion(r) ==
    [SetReply(r) EXCEPT !.Rcode = RcodeServerFailure, !.Question = <<>>]

FailureReply(r) == [SetReply(r) EXCEPT !.Rcode = RcodeServerFailure]

Contacted(f, n) == [i \in 1..n |-> [kind |-> "forward", server |-> BackendAt(f, i)]]

\* ForwardWithZoneAndCache.  zoneCache is the zone name of the cache passed,
\* Nil for a nil cache; outcomes[i] is what the i-th exchange returns.  The
\* results are the message written, the exchanges made and the caches left.
ForwardWithZoneAndCache(f, r, zoneName, zoneCache, caches, outcomes, t) ==
    LET total == Attempts(f)
        k == FirstOK(outcomes, 1, total)
    IN  IF k = 0
        THEN {[written |-> <<FailureReply(r)>>, exchanges |-> Contacted(f, total),
               caches |-> caches]}
        ELSE LET resp == UpstreamReply(r, outcomes[k])
             IN  IF zoneCache # Nil /\ Len(r.Question) > 0
                 THEN {[written |-> <<resp>>, exchanges |-> Contacted(f, k),
                        caches |-> [caches EXCEPT ![zoneCache] = c2]] :
                          c2 \in Set(caches[zoneCache],
                                     CacheKey(r.Question[1].Name, r.Question[1].Qtype, <<>>),
                                     resp, t)}
                 ELSE {[written |-> <<resp>>, exchanges |-> Contacted(f, k),
                        caches |-> caches]}

ForwardWithZone(f, r, zoneName, caches, outcomes, t) ==
    ForwardWithZoneAndCache(f, r, zoneName, Nil, caches, outcomes, t)

Forward(f, r, caches, outcomes, t) ==
    ForwardWithZone(f, r, "default", caches, outcomes, t)

\* An exchange that returns an error, and one that returns an address.
Failed == [err |-> TRUE, rcode |-> 0, answer |-> <<>>]

Answered == [err |-> FALSE, rcode |-> 0, answer |-> <<ARecord(<<192, 168, 1, 1>>)>>]

Refused == [err |-> FALSE, rcode |-> 3, answer |-> <<>>]

(***************************************************************************)
(* The forwarder on its own: one request forwarded by forwarders of up to  *)
(* MaxServers backends and MaxRetries passes, every exchange failing,      *)
(* refusing the name or answering.                                         *)
(***************************************************************************)
MaxRetries == 2

ServerList(n) == [i \in 1..n |-> "10.0.0." \o Itoa(i) \o ":53"]

Forwarders ==
    {[backends |-> ServerList(n), retries |-> retries] :
        n \in 1..MaxServers, retries \in 1..MaxRetries}

ForwardedRequests ==
    {[Id |-> 7, Question |-> <<Question("y.e.", "A")>>],
     [Id |-> 9, Question |-> <<Question("x.org.", "AAAA"), Question("y.e.", "A")>>]}

InitFwd ==
    /\ zoneCaches = [z |-> NewZoneCache(2, 1, "z")]
    /\ probe = NoProbe
    /\ now = 0
    /\ served = 0
    /\ config = <<>>
    /\ via6Trans = <<>>
    /\ tsnet = FALSE
    /\ last = NoLast
    /\ hist = <<>>

\* The outcomes a forwarder can meet, up to what it looks at: k failures,
\* then outcome s.
AttemptOutcomes(f) ==
    {[i \in 1..Attempts(f) |-> IF i <= k THEN Failed ELSE s] :
        k \in 0..Attempts(f), s \in {Failed, Answered, Refused}}

ForwardOnce(f, r, zoneCache) ==
    /\ served < MaxOps
    /\ served' = served + 1
    /\ \E outcomes \in AttemptOutcomes(f) :
          \E x \in ForwardWithZoneAndCache(f, r, "z", zoneCache, zoneCaches, outcomes, now) :
              /\ zoneCaches' = x.caches
              /\ probe' = [op |-> "Forward", f |-> f, req |-> r, outcomes |-> outcomes,
                           written |-> x.written, exchanges |-> x.exchanges]
    /\ UNCHANGED <<config, via6Trans, tsnet, now, last, hist>>

NextFwd ==
    \E f \in Forwarders, r \in ForwardedRequests, zoneCache \in {"z", Nil} :
        ForwardOnce(f, r, zoneCache)

SpecFwd == InitFwd /\ [][NextFwd]_vars

\* The exchanges of the forwarded request that returned without error.
Succeeded == {i \in 1..Attempts(probe.f) : ~probe.outcomes[i].err}

\* C5: the forwarder makes `retries` passes over its backends, in list order
\* within each pass; a failed exchange moves on to the next backend; the
\* first exchange that returns without error ends the loop, its response is
\* written to the client and no further backend is contacted.
C5_ForwardInOrderUntilSuccess ==
    probe.op = "Forward" =>
        LET n == Len(probe.f.backends)
        IN  /\ \A i \in 1..Len(probe.exchanges) :
                  probe.exchanges[i].server = probe.f.backends[((i - 1) % n) + 1]
            /\ Succeeded = {} => Len(probe.exchanges) = probe.f.retries * n
            /\ \A k \in Succeeded :
                  (\A j \in Succeeded : k <= j) =>
                      /\ Len(probe.exchanges) = k
                      /\ probe.written = <<UpstreamReply(probe.req, probe.outcomes[k])>>

\* C5 witness: the first pass over two backends failed and the first backend
\* answered in the second pass.
C5_Witness ==
    /\ probe.op = "Forward"
    /\ Len(probe.f.backends) = 2 /\ probe.f.retries = 2
    /\ Succeeded = {3, 4}
    /\ Len(probe.exchanges) = 3
    /\ probe.exchanges[3].server = probe.f.backends[1]

DefaultTTL == 300

NoXlate == [used |-> FALSE]

\* Upstream servers as the dispatcher meets them while it handles one
\* request: all of them fail or all of them answer.
SteadyOutcomes(n) == {[i \in 1..n |-> o] : o \in {Failed, Answered}}

\* The reply handleZoneQuery starts from.
ZoneReplyNotAuthoritative(r) == SetReply(r)

ZoneReply(r) == [SetReply(r) EXCEPT !.Authoritative = TRUE]

\* The lookups of the reflected name a translation made.
Reflected(h, sel, x) ==
    IF sel = Nil \/ sel \notin DOMAIN h.via6Trans.zones THEN <<>>
    ELSE [i \in 1..x.tried |->
             [kind |-> "reflect", server |-> h.via6Trans.zones[sel].rule.DNSServers[i]]]

\* The end of handleZoneQuery: msg is cached when the zone has a cache, then
\* written.
StoreAndWrite(h, question, zoneName, msg, exchanges, xlate, t) ==
    IF zoneName \in DOMAIN h.zoneCaches
    THEN {[path |-> "synth", written |-> <<msg>>, exchanges |-> exchanges,
           caches |-> [h.zoneCaches EXCEPT ![zoneName] = c2], xlate |-> xlate] :
             c2 \in Set(h.zoneCaches[zoneName],
                        CacheKey(question.Name, question.Qtype, <<>>), msg, t)}
    ELSE {[path |-> "synth", written |-> <<msg>>, exchanges |-> exchanges,
           caches |-> h.zoneCaches, xlate |-> xlate]}

handleZoneQuery(h, r, question, zone, zoneName, t) ==
    IF question.Qtype = "AAAA"
    THEN UNION {
           LET x == TranslateToVia6(h.via6Trans, h.config.Zones, question.Name,
                                    sel, outcomes)
               msg == IF x.ok
                      THEN [ZoneReply(r) EXCEPT
                              !.Answer = <<RR(question.Name, "AAAA", DefaultTTL, x.ip)>>]
                      ELSE ZoneReply(r)
           IN  StoreAndWrite(h, question, zoneName, msg, Reflected(h, sel, x),
                             [used |-> TRUE, ok |-> x.ok, ip |-> x.ip], t) :
             sel \in GetZone(h.config.Zones, question.Name),
             outcomes \in SteadyOutcomes(MaxServers)}
    ELSE StoreAndWrite(h, question, zoneName, ZoneReply(r), <<>>, NoXlate, t)

\* What the overlay's peer list gives for a MagicDNS name: no local client,
\* no such host, or the host's first overlay address.
MagicOutcomes == {"noclient", "notfound", "ip4", "ip6"}

PeerIP4 == <<100, 64, 0, 7>>

PeerIP6 == <<253, 122, 17, 92, 161, 224, 0, 0, 0, 0, 0, 0, 0, 0, 0, 83>>

WithPath(results, path) ==
    {[path |-> path, written |-> x.written, exchanges |-> x.exchanges,
      caches |-> x.caches, xlate |-> NoXlate] : x \in results}

Written(h, path, msg) ==
    [path |-> path, written |-> <<msg>>, exchanges |-> <<>>,
     caches |-> h.zoneCaches, xlate |-> NoXlate]

handleMagicDNSQuery(h, r, question, t) ==
    LET forwarded ==
            WithPath(UNION {Forward(h.forwarder, r, h.zoneCaches, outcomes, t) :
                               outcomes \in SteadyOutcomes(Attempts(h.forwarder))},
                     "magic_forward")
        answered(rrtype, ip) ==
            LET msg == IF question.Qtype = rrtype
                       THEN [ZoneReply(r) EXCEPT
                               !.Answer = <<RR(question.Name, rrtype, DefaultTTL, ip)>>]
                       ELSE [ZoneReply(r) EXCEPT !.Rcode = RcodeNameError]
            IN  {Written(h, "magic", msg)}
    IN  IF ~h.tsnet THEN forwarded
        ELSE UNION {
               CASE m = "noclient" -> forwarded
                 [] m = "notfound" -> {Written(h, "magic", SetRcode(r, RcodeNameError))}
                 [] m = "ip4" -> answered("A", PeerIP4)
                 [] m = "ip6" -> answered("AAAA", PeerIP6) :
               m \in MagicOutcomes}

NotAsked == "<not asked>"

\* A result with the zones the dispatcher's own calls of GetZone returned:
\* qzones[i] for question i of the loop, gate for the call after the loop.
Tag(results, qzones, gate) ==
    {[path |-> x.path, written |-> x.written, exchanges |-> x.exchanges,
      caches |-> x.caches, xlate |-> x.xlate,
      qzones |-> qzones, gate |-> gate] : x \in results}

Upto(seq, n) == SubSeq(seq, 1, IF n < Len(seq) THEN n ELSE Len(seq))

\* ServeDNS after the loop over the questions (priority 3), with `zone`
\* what GetZone returned for the first question.
ServeRest(h, r, isTS, zoneName, zone, t) ==
    IF ~isTS /\ (zone = Nil \/ ~h.config.Zones[zone].AllowExternalClients)
    THEN {Written(h, "blocked", SetRcode(r, RcodeNameError))}
    ELSE IF zone # Nil
    THEN LET zoneForwarder == NewForwarder(h.config.Zones[zone].Backend)
             zoneCache == IF zoneName \in DOMAIN h.zoneCaches THEN zoneName ELSE Nil
         IN  WithPath(UNION {ForwardWithZoneAndCache(zoneForwarder, r, zoneName,
                                 zoneCache, h.zoneCaches, outcomes, t) :
                               outcomes \in SteadyOutcomes(Attempts(zoneForwarder))},
                      "zone_forward")
    ELSE WithPath(UNION {ForwardWithZone(h.forwarder, r, "global", h.zoneCaches,
                                         outcomes, t) :
                            outcomes \in SteadyOutcomes(Attempts(h.forwarder))},
                  "global_forward")

\* The loop of ServeDNS from question i on.  qz[i] is what GetZone returns
\* for question i when the loop asks (it asks for overlay clients only).
RECURSIVE ServeLoop(_, _, _, _, _, _, _, _)
ServeLoop(h, r, clientIP, isTS, zoneName, qz, i, t) ==
    IF i > Len(r.Question)
    THEN IF Len(r.Question) = 0
         THEN \* r.Question[0] of an empty question section: the handler panics
              {[path |-> "panic", written |-> <<>>, exchanges |-> <<>>,
                caches |-> h.zoneCaches, xlate |-> NoXlate,
                qzones |-> <<>>, gate |-> NotAsked]}
         ELSE UNION {Tag(ServeRest(h, r, isTS, zoneName, zone, t), qz, zone) :
                        zone \in GetZone(h.config.Zones, r.Question[1].Name)}
    ELSE LET question == r.Question[i]
             got == IF zoneName \in DOMAIN h.zoneCaches
                    THEN Get(h.zoneCaches[zoneName],
                             CacheKey(question.Name, question.Qtype, AsSlice(clientIP)), t)
                    ELSE [found |-> FALSE]
         IN  IF got.found
             THEN Tag({Written(h, "cache_hit", got.msg)}, Upto(qz, i - 1), NotAsked)
             ELSE IF isTS /\ qz[i] # Nil /\ Has4via6(h.config.Zones[qz[i]])
             THEN Tag(handleZoneQuery(h, r, question, qz[i], zoneName, t),
                      Upto(qz, i), NotAsked)
             ELSE IF isMagicDNSDomain(question.Name)
             THEN Tag(handleMagicDNSQuery(h, r, question, t), Upto(qz, i), NotAsked)
             ELSE ServeLoop(h, r, clientIP, isTS, zoneName, qz, i + 1, t)

\* ServeDNS for request r arriving from remoteAddr at time t: the results,
\* each with the zone name the first call of GetZone gave the request.
ServeDNS(h, r, remoteAddr, t) ==
    LET clientIP == getClientIP(remoteAddr)
        isTS == isTailscaleClient(clientIP)
        first == IF Len(r.Question) > 0
                 THEN GetZone(h.config.Zones, r.Question[1].Name) ELSE {Nil}
        asked == IF isTS
                 THEN {qz \in [1..Len(r.Question) -> DOMAIN h.config.Zones \cup {Nil}] :
                          \A i \in 1..Len(r.Question) :
                              qz[i] \in GetZone(h.config.Zones, r.Question[i].Name)}
                 ELSE {<<>>}
    IN  UNION {
          LET zoneName == IF zone = Nil THEN "default" ELSE zone
          IN  {[zoneName |-> zoneName, res |-> x] :
                  x \in ServeLoop(h, r, clientIP, isTS, zoneName, qz, 1, t)} :
          zone \in first, qz \in asked}

\* NewServerWithRuntime: a cache for every zone whose configuration has one.
NewZoneCaches(cfg) ==
    [zoneName \in {n \in DOMAIN cfg.Zones : cfg.Zones[n].Cache.set} |->
        LET zone == cfg.Zones[zoneName]
            maxSize == IF zone.Cache.MaxSize = 0 THEN cfg.Global.Cache.MaxSize
                       ELSE zone.Cache.MaxSize
            ttl == IF zone.Cache.TTL = "" THEN 300 ELSE ParseDuration(zone.Cache.TTL).d
        IN  NewZoneCache(maxSize, ttl, zoneName)]

(***************************************************************************)
(* The server: requests arrive from clients, time passes, the sweepers of  *)
(* the zone caches run.                                                    *)
(***************************************************************************)
\* The configuration the server runs: zone beta forwards "a.c." and "*.e",
\* caches and admits external clients; zone gamma synthesises for "*.c." and
\* "x.org" and caches.  The names asked for match one zone at most.
ServerConfigs ==
    {c \in RunnableConfigs :
        DOMAIN c.Zones = {"beta", "gamma"} /\ c.Global.Cache.MaxSize = 2}

\* An overlay client, an external client and a client whose address does
\* not parse.
RemoteAddrs == {"100.64.0.1:5353", "8.8.8.8:53", "pipe"}

QuestionLists ==
    {<<>>,
     <<Question("x.org.", "AAAA")>>,
     <<Question("x.org.", "A")>>,
     <<Question("x.org.", "TXT")>>,
     <<Question("y.e.", "A")>>,
     <<Question("h.ts.net.", "A")>>,
     <<Question("z.org.", "A"), Question("h.ts.net.", "A")>>}

\* The n-th request the server receives carries ID n.
Requests == {[Id |-> served + 1, Question |-> q] : q \in QuestionLists}

Handler ==
    [config |-> config, via6Trans |-> via6Trans, tsnet |-> tsnet,
     zoneCaches |-> zoneCaches, forwarder |-> NewForwarder(config.Global.Backend)]

Init ==
    /\ config \in ServerConfigs
    /\ via6Trans = NewTranslator(config)
    /\ tsnet \in BOOLEAN
    /\ zoneCaches = NewZoneCaches(config)
    /\ now = 0
    /\ served = 0
    /\ last = NoLast
    /\ probe = NoProbe
    /\ hist = <<>>

\* One request handled from arrival to return.
Serve(r, remoteAddr) ==
    /\ served < MaxServed
    /\ served' = served + 1
    /\ \E x \in ServeDNS(Handler, r, remoteAddr, now) :
          /\ zoneCaches' = x.res.caches
          /\ last' = [req |-> r, client |-> remoteAddr,
                      overlay |-> isTailscaleClient(getClientIP(remoteAddr)),
                      zoneName |-> x.zoneName,
                      stored |-> /\ Len(r.Question) > 0
                                 /\ x.zoneName \in DOMAIN zoneCaches
                                 /\ Get(zoneCaches[x.zoneName],
                                        CacheKey(r.Question[1].Name,
                                                 r.Question[1].Qtype, <<>>),
                                        now).found,
                      path |-> x.res.path, written |-> x.res.written,
                      exchanges |-> x.res.exchanges, xlate |-> x.res.xlate,
                      qzones |-> x.res.qzones, gate |-> x.res.gate]
    /\ UNCHANGED <<config, via6Trans, tsnet, now, probe, hist>>

\* One tick of the sweeper of the cache of zone zoneName.
Sweep(zoneName) ==
    /\ ~zoneCaches[zoneName].stopped
    /\ zoneCaches' = [zoneCaches EXCEPT
                        ![zoneName] = cleanupExpired(zoneCaches[zoneName], now)]
    /\ UNCHANGED <<config, via6Trans, tsnet, now, served, last, probe, hist>>

Next ==
    \/ \E r \in Requests, remoteAddr \in RemoteAddrs : Serve(r, remoteAddr)
    \/ \E zoneName \in DOMAIN zoneCaches : Sweep(zoneName)
    \/ Tick

Spec == Init /\ [][Next]_vars

(***************************************************************************)
(* Properties of the dispatcher (checked under Spec).                      *)
(***************************************************************************)
Handled == last.path # "none"

\* C1: a request from an external client whose first question is not a
\* MagicDNS name and whose zone is absent or closed to external clients gets
\* NameError as its only response and causes no upstream exchange, whatever
\* requests came before.
C1_ExternalClientRefused ==
    /\ Handled
    /\ ~last.overlay
    /\ Len(last.req.Question) > 0
    /\ ~isMagicDNSDomain(last.req.Question[1].Name)
    /\ (last.zoneName = "default" \/ ~config.Zones[last.zoneName].AllowExternalClients)
    => /\ last.written = <<SetRcode(last.req, RcodeNameError)>>
       /\ last.exchanges = <<>>

\* Every zone GetZone can return for the name synthesises addresses.
InSynthesisZone(name) ==
    \A z \in GetZone(config.Zones, name) : z # Nil /\ Has4via6(config.Zones[z])

C9_RepeatAnsweredFromCache ==
    Handled /\ last.overlay /\ last.stored =>
        /\ last.path = "cache_hit"
        /\ last.exchanges = <<>>
        /\ ~last.xlate.used

(***************************************************************************)
(* Further properties of the zone cache (checked under SpecCache).         *)
(***************************************************************************)
\* C11: Get(k) is a hit exactly when k is stored and the time is not after
\* its ExpiresAt, so an expired entry that is still stored is a miss; and Get
\* changes neither the entry map nor the byte counter.
C11_GetHitIffLive ==
    /\ [](probe.op = "Get" =>
            (probe.r.found <=>
                /\ probe.key \in DOMAIN zoneCaches.c.entries
                /\ probe.at <= zoneCaches.c.entries[probe.key].ExpiresAt))
    /\ [][probe'.op = "Get" /\ probe' # probe => zoneCaches' = zoneCaches]_vars

\* C11 witness: a miss for an entry that is expired and still stored.
C11_Witness ==
    /\ probe.op = "Get"
    /\ probe.key \in DOMAIN zoneCaches.c.entries
    /\ probe.at > zoneCaches.c.entries[probe.key].ExpiresAt
    /\ ~probe.r.found

\* C12: the number of stored entries never exceeds the capacity the cache
\* was created with.
C12_SizeWithinCapacity ==
    Cardinality(DOMAIN zoneCaches.c.entries) <= zoneCaches.c.maxSize

\* The entries of the cache before the last Set that were expired then.
ExpiredBefore == {k \in DOMAIN probe.before : probe.at > probe.before[k]}

\* C13: a Set into a cache holding maxSize entries, none expired, removes
\* exactly one stored entry, one with the earliest ExpiresAt, and keeps every
\* other; when expired entries exist, they are all removed and no live entry
\* is removed if that frees room.
C13_EvictionOrder ==
    probe.op = "Set" /\ Cardinality(DOMAIN probe.before) = zoneCaches.c.maxSize =>
        LET stored   == DOMAIN probe.before
            after    == DOMAIN zoneCaches.c.entries
            earliest == {k \in stored :
                           \A j \in stored : probe.before[k] <= probe.before[j]}
        IN  IF ExpiredBefore = {}
            THEN \E victim \in earliest :
                    after = (stored \ {victim}) \cup {probe.key}
            ELSE after = (stored \ ExpiredBefore) \cup {probe.key}

\* C13 witness: a Set of a new key into a full cache with no expired entry
\* and two entries of different age removed the older one.
C13_Witness ==
    /\ probe.op = "Set"
    /\ zoneCaches.c.maxSize = 2
    /\ Cardinality(DOMAIN probe.before) = 2
    /\ probe.key \notin DOMAIN probe.before
    /\ ExpiredBefore = {}
    /\ \E k, j \in DOMAIN probe.before :
          /\ probe.before[k] < probe.before[j]
          /\ k \notin DOMAIN zoneCaches.c.entries
          /\ j \in DOMAIN zoneCaches.c.entries

\* C14: the byte counter equals the sum of the sizes of the stored entries,
\* and is 0 exactly when nothing is stored.
C14_MemoryUsageIsSumOfSizes ==
    /\ zoneCaches.c.memoryUsage =
          SumSizes(zoneCaches.c.entries, DOMAIN zoneCaches.c.entries)
    /\ zoneCaches.c.memoryUsage = 0 <=> DOMAIN zoneCaches.c.entries = {}

(***************************************************************************)
(* Reloading the configuration of a running server (SIGHUP).               *)
(***************************************************************************)
\* The cache map ReloadConfig builds: for every zone of the new
\* configuration that has a cache, the cache the server already holds under
\* that zone name if there is one, else a new cache.
ReloadZoneCaches(s, newCfg) ==
    [zoneName \in {n \in DOMAIN newCfg.Zones : newCfg.Zones[n].Cache.set} |->
        LET zone == newCfg.Zones[zoneName]
            maxSize == IF zone.Cache.MaxSize = 0 THEN newCfg.Global.Cache.MaxSize
                       ELSE zone.Cache.MaxSize
            ttl == IF zone.Cache.TTL = "" THEN 300 ELSE ParseDuration(zone.Cache.TTL).d
        IN  IF zoneName \in DOMAIN s.zoneCaches THEN s.zoneCaches[zoneName]
            ELSE NewZoneCache(maxSize, ttl, "")]

\* A variant of ReloadConfig that installs the new zone table before the
\* translator is built.
ReloadConfigEager(s, newCfg) ==
    IF ~ValidateZones(newCfg) THEN [s EXCEPT !.err = "zone validation failed"]
    ELSE LET newTranslator == NewTranslator(newCfg)
         IN  IF ~newTranslator.ok
             THEN [s EXCEPT !.err = "failed to create new zone-based translator",
                            !.config = newCfg]
             ELSE [err |-> "", config |-> newCfg, via6Trans |-> newTranslator,
                   zoneCaches |-> ReloadZoneCaches(s, newCfg)]

\* ReloadConfig on the server fields s; the handler's fields are given the
\* same values before it returns.
ReloadConfig(s, newCfg) ==
    IF ~ValidateZones(newCfg) THEN [s EXCEPT !.err = "zone validation failed"]
    ELSE LET newTranslator == NewTranslator(newCfg)
         IN  IF ~newTranslator.ok
             THEN [s EXCEPT !.err = "failed to create new zone-based translator"]
             ELSE [err |-> "", config |-> newCfg, via6Trans |-> newTranslator,
                   zoneCaches |-> ReloadZoneCaches(s, newCfg)]

\* reloadConfiguration: config.Load of the file, then ReloadConfig.
reloadConfiguration(s, raw) ==
    LET d == setDefaults(raw)
    IN  IF d.err \/ ~ValidateZones(d.cfg)
        THEN [s EXCEPT !.err = "failed to load new configuration"]
        ELSE ReloadConfig(s, d.cfg)

\* The server fields ReloadConfig works on.
ServerFields ==
    [err |-> "", config |-> config, via6Trans |-> via6Trans, zoneCaches |-> zoneCaches]

\* The files a reload can find: the running configuration again, zone gamma
\* removed, zone gamma with another cache size and ttl, and files that fail
\* to load ("zero", "ext6") or to give a translator ("bad").
GammaResized == [ZonePool["gamma"] EXCEPT !.Cache = CacheCfg(1, "1s")]

ReloadGlobal == CHOOSE g \in GlobalPool : g.Cache.MaxSize = 2

ReloadFiles ==
    {[Global |-> ReloadGlobal, Zones |-> [n \in S |-> ZonePool[n]]] :
        S \in {{"beta", "gamma"}, {"beta"}, {"beta", "zero"}, {"beta", "ext6"},
               {"beta", "bad"}}}
    \cup {[Global |-> ReloadGlobal,
           Zones |-> [n \in {"beta", "gamma"} |->
                        IF n = "gamma" THEN GammaResized ELSE ZonePool[n]]]}

\* The requests of the reload model: an overlay client asks for a name
\* zone gamma synthesises for.
ReloadRequests ==
    {[Id |-> served + 1, Question |-> <<Question("x.org.", "AAAA")>>]}

MaxReloads == 2

InitReload ==
    /\ config \in ServerConfigs
    /\ via6Trans = NewTranslator(config)
    /\ tsnet = FALSE
    /\ zoneCaches = NewZoneCaches(config)
    /\ now = 0
    /\ served = 0
    /\ last = NoLast
    /\ probe = NoProbe
    /\ hist = [reloads |-> 0, retired |-> {}]

\* One SIGHUP handled from the read of the file to the return of
\* ReloadConfig.  hist.retired collects the caches the reload took out of
\* service.
Reload(raw) ==
    /\ hist.reloads < MaxReloads
    /\ LET s2 == reloadConfiguration(ServerFields, raw)
       IN  /\ config' = s2.config
           /\ via6Trans' = s2.via6Trans
           /\ zoneCaches' = s2.zoneCaches
           /\ probe' = [op |-> "Reload", err |-> s2.err, at |-> served,
                        before |-> ServerFields]
           /\ hist' = [reloads |-> hist.reloads + 1,
                       retired |-> hist.retired \cup
                           {zoneCaches[n] : n \in {m \in DOMAIN zoneCaches :
                               \/ m \notin DOMAIN s2.zoneCaches
                               \/ s2.zoneCaches[m] # zoneCaches[m]}}]
    /\ UNCHANGED <<tsnet, now, served, last>>

\* One tick of the sweeper of a cache that is no longer in the cache map.
SweepRetired(c) ==
    /\ ~c.stopped
    /\ hist' = [hist EXCEPT !.retired = (@ \ {c}) \cup {cleanupExpired(c, now)}]
    /\ UNCHANGED <<config, via6Trans, tsnet, zoneCaches, now, served, last, probe>>

NextReload ==
    \/ \E raw \in ReloadFiles : Reload(raw)
    \/ \E r \in ReloadRequests : Serve(r, "100.64.0.1:5353")
    \/ \E zoneName \in DOMAIN zoneCaches : Sweep(zoneName)
    \/ \E c \in hist.retired : SweepRetired(c)
    \/ Tick

SpecReload == InitReload /\ [][NextReload]_vars

(***************************************************************************)
(* Properties of reloads (checked under SpecReload).                       *)
(***************************************************************************)
FailedReload == probe.op = "Reload" /\ probe.err # ""

\* The zone names under which a configuration serves a request.
ZoneNamesFor(cfg, r) ==
    {IF z = Nil THEN "default" ELSE z : z \in GetZone(cfg.Zones, r.Question[1].Name)}

\* C15: a reload that fails leaves the zone table, the translator, the global
\* forwarder and the zone-cache map as they were, and requests that follow
\* are served under the old configuration.
C15_FailedReloadChangesNothing ==
    /\ [][hist'.reloads # hist.reloads /\ probe'.err # "" =>
            /\ config' = config
            /\ via6Trans' = via6Trans
            /\ zoneCaches' = zoneCaches]_vars
    /\ [](FailedReload =>
            /\ config = probe.before.config
            /\ via6Trans = probe.before.via6Trans
            /\ Handler.forwarder = NewForwarder(probe.before.config.Global.Backend)
            /\ DOMAIN zoneCaches = DOMAIN probe.before.zoneCaches
            /\ last.path # "none" /\ last.req.Id > probe.at =>
                 last.zoneName \in ZoneNamesFor(probe.before.config, last.req))

\* C15 witness: a request answered by synthesis after a reload failed on the
\* translator.
C15_Witness ==
    /\ probe.op = "Reload"
    /\ probe.err = "failed to create new zone-based translator"
    /\ last.path = "synth"
    /\ last.req.Id > probe.at

\* C17: every cache a reload took out of service has been stopped.
C17_RetiredCachesStopped == \A c \in hist.retired : c.stopped

\* C18: each zone cache has the capacity and ttl the running configuration
\* gives its zone, and after a reload that changed a zone's configuration the
\* zone's cache holds no entry stored before the reload.
C18_CachesFollowConfig ==
    /\ DOMAIN zoneCaches = DOMAIN NewZoneCaches(config)
    /\ \A n \in DOMAIN zoneCaches :
          /\ zoneCaches[n].maxSize = NewZoneCaches(config)[n].maxSize
          /\ zoneCaches[n].ttl = NewZoneCaches(config)[n].ttl
    /\ probe.op = "Reload" /\ probe.err = "" =>
          \A n \in DOMAIN zoneCaches \cap DOMAIN probe.before.zoneCaches :
              probe.before.config.Zones[n] # config.Zones[n] =>
                  \A k \in DOMAIN zoneCaches[n].entries :
                      \/ k \notin DOMAIN probe.before.zoneCaches[n].entries
                      \/ zoneCaches[n].entries[k] # probe.before.zoneCaches[n].entries[k]

(***************************************************************************)
(* Further properties of the dispatcher (checked under Spec).              *)
(***************************************************************************)
\* C19: every response written carries the ID of the request it answers,
\* whichever path produced it, a reply taken from the cache included.
C19_ResponseCarriesRequestID ==
    Handled =>
        \A i \in 1..Len(last.written) : last.written[i].Id = last.req.Id

\* A message without the question section it echoes.
Body(m) == [Id |-> m.Id, Rcode |-> m.Rcode, Authoritative |-> m.Authoritative,
            Answer |-> m.Answer]

Bodies(msgs) == [i \in 1..Len(msgs) |-> Body(msgs[i])]

\* What the caches hold, the echoed question sections left out.
Stored(caches) ==
    [n \in DOMAIN caches |->
        [k \in DOMAIN caches[n].entries |->
            [Response |-> Body(caches[n].entries[k].Response),
             ExpiresAt |-> caches[n].entries[k].ExpiresAt]]]

\* The request r cut down to its first question.
FirstOnly(r) == [r EXCEPT !.Question = <<r.Question[1]>>]

\* C20: a request is handled as the request with its first question alone
\* would be, from the same client in the same state: same path, same answer,
\* same cache contents afterwards.
C20_OnlyFirstQuestionCounts ==
    [][served' = served + 1 /\ Len(last'.req.Question) > 0 =>
          \E x \in ServeDNS(Handler, FirstOnly(last'.req), last'.client, now) :
              /\ x.res.path = last'.path
              /\ Bodies(x.res.written) = Bodies(last'.written)
              /\ Stored(x.res.caches) = Stored(zoneCaches')]_vars

(***************************************************************************)
(* A reload that runs while a request is being served.  ReloadConfig runs  *)
(* on the signal goroutine and assigns the handler's fields one after the  *)
(* other, with no lock; ServeDNS runs on a goroutine of the DNS server and *)
(* reads h.config, h.zoneCaches, h.via6Trans and h.forwarder one after the *)
(* other, with no lock.  zoneCaches is here the set of cache instances,    *)
(* each named by its zone and the generation that created it; a cache map  *)
(* gives a zone name its instance.  Every handler field carries the        *)
(* generation of the configuration it was built from.                      *)
(***************************************************************************)
Tagged(gen, v) == [gen |-> gen, v |-> v]

\* The caches a cache map points at.
View(map) == [n \in DOMAIN map |-> zoneCaches[map[n]]]

\* The handler fields ReloadConfig assigns, in the order it assigns them.
HandlerFields == <<"config", "via6Trans", "forwarder", "zoneCaches">>

\* The value ReloadConfig gives the handler field f: that of the server field.
ServerField(f) ==
    CASE f = "config" -> config
      [] f = "via6Trans" -> via6Trans
      [] f = "forwarder" -> NewForwarder(config.Global.Backend)
      [] f = "zoneCaches" -> hist.smap

InitRace ==
    /\ config \in ServerConfigs
    /\ via6Trans = NewTranslator(config)
    /\ tsnet = FALSE
    /\ zoneCaches = [id \in {<<n, 0>> : n \in DOMAIN NewZoneCaches(config)} |->
                        NewZoneCaches(config)[id[1]]]
    /\ now = 0
    /\ served = 0
    /\ last = NoLast
    /\ probe = [pc |-> "idle"]
    /\ hist = [gen |-> 0, reloads |-> 0, pc |-> 0,
               smap |-> [n \in DOMAIN NewZoneCaches(config) |-> <<n, 0>>],
               handler |->
                  [config |-> Tagged(0, config),
                   via6Trans |-> Tagged(0, NewTranslator(config)),
                   forwarder |-> Tagged(0, NewForwarder(config.Global.Backend)),
                   zoneCaches |-> Tagged(0, [n \in DOMAIN NewZoneCaches(config) |-> <<n, 0>>])]]

\* ReloadConfig up to the assignment of the server's fields; when it
\* succeeds the handler's fields are assigned next.
ReloadBegin(raw) ==
    /\ hist.pc = 0
    /\ hist.reloads < MaxReloads
    /\ LET s  == [err |-> "", config |-> config, via6Trans |-> via6Trans,
                  zoneCaches |-> View(hist.smap)]
           s2 == reloadConfiguration(s, raw)
           gen == hist.gen + 1
           fresh == DOMAIN s2.zoneCaches \ DOMAIN hist.smap
       IN  IF s2.err # ""
           THEN /\ hist' = [hist EXCEPT !.reloads = @ + 1]
                /\ UNCHANGED <<config, via6Trans, zoneCaches>>
           ELSE /\ config' = s2.config
                /\ via6Trans' = s2.via6Trans
                /\ zoneCaches' = [id \in DOMAIN zoneCaches \cup {<<n, gen>> : n \in fresh} |->
                                    IF id \in DOMAIN zoneCaches THEN zoneCaches[id]
                                    ELSE s2.zoneCaches[id[1]]]
                /\ hist' = [hist EXCEPT
                              !.reloads = @ + 1, !.gen = gen, !.pc = 1,
                              !.smap = [n \in DOMAIN s2.zoneCaches |->
                                          IF n \in fresh THEN <<n, gen>> ELSE hist.smap[n]]]
    /\ UNCHANGED <<tsnet, now, served, last, probe>>

\* The next assignment to a field of the handler.
ReloadAssign ==
    /\ hist.pc > 0
    /\ LET f == HandlerFields[hist.pc]
       IN  hist' = [hist EXCEPT
                      !.handler[f] = Tagged(hist.gen, ServerField(f)),
                      !.pc = IF hist.pc = Len(HandlerFields) THEN 0 ELSE hist.pc + 1]
    /\ UNCHANGED <<config, via6Trans, tsnet, zoneCaches, now, served, last, probe>>

\* ServeDNS starts and selects the zone: it reads h.config.
RequestArrive(r, remoteAddr) ==
    /\ probe.pc = "idle"
    /\ served < MaxServed
    /\ served' = served + 1
    /\ probe' = [pc |-> "selected", req |-> r, client |-> remoteAddr,
                 config |-> hist.handler.config]
    /\ UNCHANGED <<config, via6Trans, tsnet, zoneCaches, now, last, hist>>

\* ServeDNS looks the cache of the zone up: it reads h.zoneCaches.
RequestLookup ==
    /\ probe.pc = "selected"
    /\ probe' = [probe EXCEPT !.pc = "looked"] @@
                [zoneCaches |-> hist.handler.zoneCaches]
    /\ UNCHANGED <<config, via6Trans, tsnet, zoneCaches, now, served, last, hist>>

\* ServeDNS goes on to synthesis or forwarding, reading h.via6Trans and
\* h.forwarder, and returns.
RequestFinish ==
    /\ probe.pc = "looked"
    /\ LET map == probe.zoneCaches.v
           h == [config |-> probe.config.v, via6Trans |-> hist.handler.via6Trans.v,
                 tsnet |-> tsnet, zoneCaches |-> View(map),
                 forwarder |-> hist.handler.forwarder.v]
       IN  \E x \in ServeDNS(h, probe.req, probe.client, now) :
              /\ zoneCaches' = [id \in DOMAIN zoneCaches |->
                                  IF \E n \in DOMAIN map : map[n] = id
                                  THEN x.res.caches[id[1]] ELSE zoneCaches[id]]
              /\ last' = [req |-> probe.req, client |-> probe.client,
                          zoneName |-> x.zoneName, path |-> x.res.path,
                          written |-> x.res.written,
                          used |-> [config |-> probe.config.gen,
                                    via6Trans |-> hist.handler.via6Trans.gen,
                                    zoneCaches |-> probe.zoneCaches.gen]]
    /\ probe' = [pc |-> "idle"]
    /\ UNCHANGED <<config, via6Trans, tsnet, now, served, hist>>

NextRace ==
    \/ \E raw \in ReloadFiles : ReloadBegin(raw)
    \/ ReloadAssign
    \/ \E r \in ReloadRequests : RequestArrive(r, "100.64.0.1:5353")
    \/ RequestLookup
    \/ RequestFinish
    \/ Tick

SpecRace == InitRace /\ [][NextRace]_vars

\* C16: the zone table, the translator and the cache map a request was
\* served with were all built from the same configuration.
C16_OneSnapshotPerRequest ==
    Handled =>
        /\ last.used.config = last.used.via6Trans
        /\ last.used.config = last.used.zoneCaches

(***************************************************************************)
(* Properties of the dispatcher on unusual requests (checked under Spec).  *)
(***************************************************************************)
\* C21: a request with an empty question section is dropped or answered with
\* one FormatError (rcode 1) reply carrying the request's ID, and handling
\* it does not fault the handler.
C21_EmptyQuestionHandled ==
    Handled /\ Len(last.req.Question) = 0 =>
        /\ last.path # "panic"
        /\ \/ last.written = <<>>
           \/ /\ Len(last.written) = 1
              /\ last.written[1].Rcode = 1
              /\ last.written[1].Id = last.req.Id

\* C22: an overlay client's query of a type other than A and AAAA for a name
\* of a synthesis zone is not answered by the synthesis path: it is forwarded
\* to the upstream servers of the zone.
C22_OtherTypesForwarded ==
    /\ Handled
    /\ last.overlay
    /\ Len(last.req.Question) = 1
    /\ InSynthesisZone(last.req.Question[1].Name)
    /\ last.req.Question[1].Qtype \notin {"A", "AAAA"}
    /\ last.path # "cache_hit"
    => /\ last.path = "zone_forward"
       /\ Len(last.exchanges) > 0

\* C23: a query for a name under .ts.net takes the MagicDNS path only when
\* the overlay handle is present, and is then answered with an address or
\* with NameError; without the handle an external client whose zone is
\* absent or closed to external clients is refused and nothing is forwarded.
C23_MagicDNSNeedsOverlay ==
    /\ Handled
    /\ Len(last.req.Question) = 1
    /\ isMagicDNSDomain(last.req.Question[1].Name)
    => /\ last.path = "magic" =>
             /\ tsnet
             /\ Len(last.written) = 1
             /\ last.written[1].Answer = <<>> <=> last.written[1].Rcode = RcodeNameError
       /\ /\ ~tsnet
          /\ ~last.overlay
          /\ (last.zoneName = "default" \/ ~config.Zones[last.zoneName].AllowExternalClients)
          => /\ last.written = <<SetRcode(last.req, RcodeNameError)>>
             /\ last.exchanges = <<>>

(***************************************************************************)
(* Starting the server from a configuration file and reloading it: which   *)
(* files are refused and which configurations the server ends up running.  *)
(***************************************************************************)
\* The zones of ZonePool and a zone with a reflectedDomain and no translateID.
LoadPool ==
    [n \in DOMAIN ZonePool \cup {"refl"} |->
        IF n = "refl"
        THEN RawZone(<<"*.m">>, Inherit, "r.d", NoID, "", NoCache, FALSE)
        ELSE ZonePool[n]]

\* The files: no zone, one zone, or zone alpha or beta with another zone.
LoadFiles ==
    {[Global |-> ReloadGlobal, Zones |-> [n \in S |-> LoadPool[n]]] :
        S \in {T \in SUBSET DOMAIN LoadPool :
                 \/ Cardinality(T) <= 1
                 \/ Cardinality(T) = 2 /\ T \cap {"alpha", "beta"} # {}}}

MaxLoads == 1

\* The process before main has read its configuration file.
InitLoad ==
    /\ config = <<>>
    /\ via6Trans = <<>>
    /\ zoneCaches = <<>>
    /\ tsnet = FALSE
    /\ now = 0
    /\ served = 0
    /\ last = NoLast
    /\ probe = NoProbe
    /\ hist = [state |-> "starting", reloads |-> 0]

\* main: config.Load of the file, then NewServerWithRuntime; the process
\* exits when either fails.
Start(raw) ==
    /\ hist.state = "starting"
    /\ LET d == setDefaults(raw)
           loaded == ~d.err /\ ValidateZones(d.cfg)
           built == loaded /\ NewTranslator(d.cfg).ok
       IN  /\ probe' = [op |-> "Start", file |-> raw,
                        err |-> IF ~loaded THEN "Failed to load configuration"
                                ELSE IF ~built THEN "Failed to create DNS server"
                                ELSE ""]
           /\ IF built
              THEN /\ config' = d.cfg
                   /\ via6Trans' = NewTranslator(d.cfg)
                   /\ zoneCaches' = NewZoneCaches(d.cfg)
                   /\ hist' = [hist EXCEPT !.state = "running"]
              ELSE /\ hist' = [hist EXCEPT !.state = "exited"]
                   /\ UNCHANGED <<config, via6Trans, zoneCaches>>
    /\ UNCHANGED <<tsnet, now, served, last>>

\* One SIGHUP of the running server, from the read of the file to the
\* return of ReloadConfig.
ReloadFile(raw) ==
    /\ hist.state = "running"
    /\ hist.reloads < MaxLoads
    /\ LET s2 == reloadConfiguration(ServerFields, raw)
       IN  /\ config' = s2.config
           /\ via6Trans' = s2.via6Trans
           /\ zoneCaches' = s2.zoneCaches
           /\ probe' = [op |-> "Reload", file |-> raw, err |-> s2.err]
    /\ hist' = [hist EXCEPT !.reloads = @ + 1]
    /\ UNCHANGED <<tsnet, now, served, last>>

NextLoad ==
    \/ \E raw \in LoadFiles : Start(raw)
    \/ \E raw \in LoadFiles : ReloadFile(raw)

SpecLoad == InitLoad /\ [][NextLoad]_vars

(***************************************************************************)
(* Properties of validation (checked under SpecLoad).                      *)
(***************************************************************************)
Running == hist.state = "running"

\* The last file read was refused.
FileRefused == probe.op \in {"Start", "Reload"} /\ probe.err # ""

SynthesisZones(zones) == {n \in DOMAIN zones : Has4via6(zones[n])}

DuplicateIDs(zones) ==
    \E n, m \in SynthesisZones(zones) :
        n # m /\ GetTranslateID(zones[n]) = GetTranslateID(zones[m])

\* C24: a file in which two synthesis zones have the same translateID is
\* refused at startup and on reload, and the synthesis zones of the running
\* configuration have pairwise distinct translateIDs.
C24_TranslateIDsDistinct ==
    /\ probe.op \in {"Start", "Reload"} /\ DuplicateIDs(probe.file.Zones) => FileRefused
    /\ Running => ~DuplicateIDs(config.Zones)

\* C24 witness: a running server refused a reload whose file repeats a
\* translateID, and still runs two synthesis zones.
C24_Witness ==
    /\ Running
    /\ probe.op = "Reload"
    /\ DuplicateIDs(probe.file.Zones)
    /\ FileRefused
    /\ Cardinality(SynthesisZones(config.Zones)) = 2

OpenSynthesisZone(zones) ==
    \E n \in SynthesisZones(zones) : zones[n].AllowExternalClients

\* C25: a file with a zone that is synthesis-enabled and admits external
\* clients is refused at startup and on reload, and the running
\* configuration has no such zone.
C25_NoOpenSynthesisZone ==
    /\ probe.op \in {"Start", "Reload"} /\ OpenSynthesisZone(probe.file.Zones)
          => FileRefused
    /\ Running => ~OpenSynthesisZone(config.Zones)

\* C25 witness: a running server refused a reload whose file opens a
\* synthesis zone to external clients.
C25_Witness ==
    /\ Running
    /\ probe.op = "Reload"
    /\ OpenSynthesisZone(probe.file.Zones)
    /\ ~DuplicateIDs(probe.file.Zones)
    /\ FileRefused

\* The network of a CIDR text starts with fd7a:115c:a1e0:0b1a.
InVia6Space(ip) == Len(ip) = 16 /\ SubSeq(ip, 1, 8) = Via6Prefix8

\* A synthesis zone whose prefixSubnet (the default one when it gives none)
\* does not parse or lies outside the 4via6 space.
BadPrefix(zones) ==
    \E n \in SynthesisZones(zones) :
        LET text == IF zones[n].PrefixSubnet = "" THEN DefaultPrefix
                    ELSE zones[n].PrefixSubnet
        IN  ~ParseCIDR(text).ok \/ ~InVia6Space(ParseCIDR(text).ip)

\* C26: starting with or reloading a file in which a synthesis zone has such
\* a prefix fails, and every prefix of the running translator lies in the
\* 4via6 space.
C26_BadPrefixRefused ==
    /\ probe.op \in {"Start", "Reload"} /\ BadPrefix(probe.file.Zones) => FileRefused
    /\ Running =>
          /\ ~BadPrefix(config.Zones)
          /\ \A n \in DOMAIN via6Trans.zones :
                InVia6Space(via6Trans.zones[n].rule.PrefixNetwork)

\* C26 witness: a running server with a synthesis zone refused a reload
\* whose file parses, passes ValidateZones and has a prefix outside the
\* 4via6 space.
C26_Witness ==
    /\ Running
    /\ DOMAIN via6Trans.zones # {}
    /\ probe.op = "Reload"
    /\ BadPrefix(probe.file.Zones)
    /\ probe.err = "failed to create new zone-based translator"

\* A zone that gives one of translateID and reflectedDomain without the
\* other, or the translateID 0.
PartlySpecified(z) ==
    \/ z.TranslateID # NoID /\ z.ReflectedDomain = ""
    \/ z.TranslateID = NoID /\ z.ReflectedDomain # ""
    \/ z.TranslateID = 0

\* C27: a file with a zone whose synthesis parameters are partly specified,
\* or whose translateID is 0, is refused at startup and on reload.
C27_PartlySpecifiedRefused ==
    /\ probe.op \in {"Start", "Reload"}
    /\ \E n \in DOMAIN probe.file.Zones : PartlySpecified(probe.file.Zones[n])
    => FileRefused

(***************************************************************************)
(* Properties of TranslateFromVia6 (checked under SpecReverse).            *)
(***************************************************************************)
\* The synthesis zones of the configuration whose translateID is in bytes
\* 10..11 of the address.
ZonesOfAddress(ip) ==
    {n \in SynthesisZones(config.Zones) :
        config.Zones[n].TranslateID = ip[11] * 256 + ip[12]}

\* C28: TranslateFromVia6 succeeds exactly for a 16-byte input whose first
\* 10 bytes are fd7a 115c a1e0 0b1a 0000 and whose bytes 10..11 hold the
\* translateID of a configured synthesis zone, and then returns the
\* reflectedDomain of such a zone and the last 4 bytes.
C28_ReverseRejects ==
    probe.op = "Reverse" =>
        LET ip == probe.ip
            wellFormed == Len(ip) = 16 /\ SubSeq(ip, 1, 10) = Via6Prefix10
        IN  /\ probe.rev.ok <=> wellFormed /\ ZonesOfAddress(ip) # {}
            /\ probe.rev.ok =>
                  /\ \E n \in ZonesOfAddress(ip) :
                        probe.rev.domain = config.Zones[n].ReflectedDomain
                  /\ probe.rev.ipv4 = SubSeq(ip, 13, 16)

\* C28 witness: an address that differs from a synthetic address of a
\* configured zone in one bit of byte 9 is rejected.
C28_Witness ==
    /\ probe.op = "Reverse"
    /\ Len(probe.ip) = 16
    /\ SubSeq(probe.ip, 1, 8) = Via6Prefix8
    /\ probe.ip[9] = 0 /\ probe.ip[10] = 1
    /\ ZonesOfAddress(probe.ip) # {}
    /\ ~probe.rev.ok

(***************************************************************************)
(* MatchesDomain on its own: one name against one pattern.                 *)
(***************************************************************************)
MatchNames ==
    {"c", "c.", "a.c", "a.c.", "b.a.c", "b.a.c.", "xc", "xc.", "xa.c.", "a.cx",
     "c.a", "a.c.d.", "d", "A.c."}

MatchPatterns == {"*.c", "*.c.", "c", "c.", "a.c", "a.c.", "*.a.c", "*.a.c."}

InitMatch ==
    /\ config = <<>>
    /\ via6Trans = <<>>
    /\ probe = NoProbe
    /\ Idle

Match(domain, zoneDomain) ==
    /\ probe' = [op |-> "Match", domain |-> domain, zoneDomain |-> zoneDomain,
                 r |-> MatchesDomain(domain, zoneDomain)]
    /\ UNCHANGED <<config, via6Trans, tsnet, zoneCaches, now, served, last, hist>>

NextMatch == \E domain \in MatchNames, zoneDomain \in MatchPatterns : Match(domain, zoneDomain)

SpecMatch == InitMatch /\ [][NextMatch]_vars

CaseNames == {"a.c.", "A.C.", "A.c.", "b.a.c.", "B.a.C.", "x.org.", "X.ORG.", "y.e.", "Y.e."}

\* GetZone and CacheKey for name and for other, and a Get under other's key
\* on a zone cache that holds a reply stored under name's key.
LookupPair(name, other, qtype) ==
    /\ LET key == CacheKey(name, qtype, <<>>)
           key2 == CacheKey(other, qtype, <<>>)
           reply == SetReply([Id |-> 1, Question |-> <<Question(name, qtype)>>])
       IN  \E c \in Set(NewZoneCache(DefaultMaxSize, DefaultTTL, "z"), key, reply, now) :
               probe' = [op |-> "Lookup", name |-> name, other |-> other,
                         zones |-> GetZone(config.Zones, name),
                         zones2 |-> GetZone(config.Zones, other),
                         key |-> key, key2 |-> key2,
                         hit |-> Get(c, key2, now).found]
    /\ UNCHANGED <<config, via6Trans, tsnet, zoneCaches, now, served, last, hist>>

NextCase ==
    \E name \in CaseNames, other \in CaseNames, qtype \in {"A", "AAAA"} :
        ToLower(name) = ToLower(other) /\ LookupPair(name, other, qtype)

SpecCase == InitZones /\ [][NextCase]_vars

\* C30: two query names that differ only in letter case select the same zone
\* and map to the same cache key, so a reply stored under one is a hit for
\* the other.
C30_CaseInsensitive ==
    probe.op = "Lookup" =>
        /\ probe.zones = probe.zones2
        /\ probe.key = probe.key2
        /\ probe.hit

(***************************************************************************)
(* The client classifier on its own: getClientIP, then isTailscaleClient,  *)
(* for a handler with and without an overlay handle.                       *)
(***************************************************************************)
\* Source addresses as their bytes; the empty tuple stands for a source whose
\* text is no host:port pair.
ClassifySources ==
    {<<a, b, 0, d>> : a \in {10, 99, 100, 101, 127, 228},
                      b \in {0, 63, 64, 100, 127, 128, 192, 255},
                      d \in {1, 255}}
        \cup {IPv6Literals[t] : t \in DOMAIN IPv6Literals}
        \cup {<<>>}

\* net.Addr.String of a UDP or TCP source.
AddrString(src, port) ==
    IF Len(src) = 4 THEN IPString(src) \o ":" \o port
    ELSE IF Len(src) = 16 THEN "[" \o IPString(src) \o "]:" \o port
    ELSE "pipe"

InitClassify ==
    /\ tsnet \in BOOLEAN
    /\ config = <<>>
    /\ via6Trans = <<>>
    /\ zoneCaches = <<>>
    /\ now = 0
    /\ served = 0
    /\ last = NoLast
    /\ hist = <<>>
    /\ probe = NoProbe

Classify(src, port) ==
    /\ probe' = [op |-> "Classify", src |-> src,
                 r |-> isTailscaleClient(getClientIP(AddrString(src, port)))]
    /\ UNCHANGED <<config, via6Trans, tsnet, zoneCaches, now, served, last, hist>>

NextClassify == \E src \in ClassifySources, port \in {"53", "5353"} : Classify(src, port)

SpecClassify == InitClassify /\ [][NextClassify]_vars

\* The classes of source address the classifier takes for overlay.
LoopbackSource(src) ==
    \/ Len(src) = 4 /\ src[1] = 127
    \/ Len(src) = 16 /\ src[16] = 1 /\ \A i \in 1..15 : src[i] = 0

CGNATSource(src) == Len(src) = 4 /\ src[1] = 100 /\ src[2] \in 64..127

ULASource(src) == Len(src) = 16 /\ SubSeq(src, 1, 6) = <<253, 122, 17, 92, 161, 224>>

InitSweeper ==
    /\ \E maxSize \in CacheSizes, ttl \in {1, 2} :
          zoneCaches = [c |-> NewZoneCache(maxSize, ttl, "c")]
    /\ hist = [sweeper |-> "running"]
    /\ probe = NoProbe
    /\ now = 0
    /\ served = 0
    /\ config = <<>>
    /\ via6Trans = <<>>
    /\ tsnet = FALSE
    /\ last = NoLast

SweeperSet(key, response) ==
    /\ served < MaxOps
    /\ served' = served + 1
    /\ \E c2 \in Set(zoneCaches.c, key, response, now) :
          zoneCaches' = [zoneCaches EXCEPT !.c = c2]
    /\ probe' = [op |-> "Set", key |-> key]
    /\ UNCHANGED <<config, via6Trans, tsnet, now, last, hist>>

\* The ticker case of the sweeper's select.
SweeperTick ==
    /\ hist.sweeper = "running"
    /\ zoneCaches' = [zoneCaches EXCEPT !.c = cleanupExpired(zoneCaches.c, now)]
    /\ probe' = [op |-> "Sweep", at |-> now, before |-> zoneCaches.c]
    /\ UNCHANGED <<config, via6Trans, tsnet, now, served, last, hist>>

\* ZoneCache.Stop: close(stopCleanup).
SweeperStop ==
    /\ ~zoneCaches.c.stopped
    /\ zoneCaches' = [zoneCaches EXCEPT !.c.stopped = TRUE]
    /\ probe' = [op |-> "Stop"]
    /\ UNCHANGED <<config, via6Trans, tsnet, now, served, last, hist>>

\* The stopCleanup case of the sweeper's select.
SweeperExit ==
    /\ hist.sweeper = "running"
    /\ zoneCaches.c.stopped
    /\ hist' = [hist EXCEPT !.sweeper = "exited"]
    /\ UNCHANGED <<config, via6Trans, tsnet, zoneCaches, now, served, last, probe>>

NextSweeper ==
    \/ \E key \in CacheKeys, response \in CacheMsgs : SweeperSet(key, response)
    \/ SweeperTick
    \/ SweeperStop
    \/ SweeperExit
    \/ Tick

\* The ticker keeps firing while the task runs, and a closed channel stays
\* ready until the select takes it.
SpecSweeper ==
    /\ InitSweeper
    /\ [][NextSweeper]_vars
    /\ WF_vars(SweeperTick)
    /\ WF_vars(SweeperExit)

\* Key k holds an entry whose ExpiresAt has passed.
StoredExpired(k) ==
    k \in DOMAIN zoneCaches.c.entries /\ Expired(zoneCaches.c.entries[k], now)

\* C32: while the cache is not stopped every entry whose ExpiresAt has passed
\* is eventually removed by the sweeper alone, a sweep removes exactly the
\* expired entries and lowers memoryUsage by their sizes, and after Stop the
\* sweeper task exits.
C32_SweeperRemovesExpired ==
    /\ \A k \in CacheKeys :
          [](StoredExpired(k) => <>(~StoredExpired(k) \/ zoneCaches.c.stopped))
    /\ [](probe.op = "Sweep" =>
            LET gone == {k \in DOMAIN probe.before.entries :
                            Expired(probe.before.entries[k], probe.at)}
            IN  /\ DOMAIN zoneCaches.c.entries = DOMAIN probe.before.entries \ gone
                /\ zoneCaches.c.memoryUsage =
                      probe.before.memoryUsage - SumSizes(probe.before.entries, gone))
    /\ [](zoneCaches.c.stopped => <>(hist.sweeper = "exited"))

\* C32 witness: a sweep of a running cache has just removed an expired entry.
C32_Witness ==
    /\ probe.op = "Sweep"
    /\ ~zoneCaches.c.stopped
    /\ \E k \in DOMAIN probe.before.entries :
          /\ Expired(probe.before.entries[k], probe.at)
          /\ k \notin DOMAIN zoneCaches.c.entries

(***************************************************************************)
(* One zone cache under concurrent callers: every method takes the cache's *)
(* sync.RWMutex and releases it by defer, the sweeper task takes it for    *)
(* each cleanup, Stop closes the channel without taking it.                *)
(***************************************************************************)
NewMutex == [w |-> Nil, r |-> {}]

CanLock(m) == m.w = Nil /\ m.r = {}

CanRLock(m) == m.w = Nil

Lock(m, p) == [m EXCEPT !.w = p]

RLock(m, p) == [m EXCEPT !.r = @ \cup {p}]

\* An Unlock that leaves the mutex held.
UnlockKeep(m, p) == m

Unlock(m, p) == [m EXCEPT !.w = Nil]

RUnlock(m, p) == [m EXCEPT !.r = @ \ {p}]

Workers == {"w1", "w2"}

Procs == Workers \cup {"sweeper"}

LockKeys == {"a.c.:AAAA", "x.org.:A"}

MaxCalls == 2

\* The calls a worker can make; Get, Size and MemoryUsage take the read lock.
LockCalls ==
    {[name |-> "Set", key |-> k, response |-> m] :
        k \in LockKeys, m \in {x \in CacheMsgs : x.Id = 1}}
        \cup {[name |-> "Get", key |-> "a.c.:AAAA"]}
        \cup {[name |-> n] : n \in {"Clear", "Size", "MemoryUsage"}}

ReadCalls == {"Get", "Size", "MemoryUsage"}

SweepCall == [name |-> "Sweep"]

InitLock ==
    /\ zoneCaches = [c |-> NewZoneCache(2, DefaultTTL, "c")]
    /\ hist = [mutex |-> NewMutex,
               pc |-> [p \in Procs |-> "idle"],
               call |-> [p \in Procs |-> [name |-> "none"]]]
    /\ probe = NoProbe
    /\ now = 0
    /\ served = 0
    /\ config = <<>>
    /\ via6Trans = <<>>
    /\ tsnet = FALSE
    /\ last = NoLast

\* A worker enters a method of the cache.
Call(p, call) ==
    /\ hist.pc[p] = "idle"
    /\ served < MaxCalls
    /\ served' = served + 1
    /\ hist' = [hist EXCEPT !.pc[p] = "wait",
                            !.call[p] = [call |-> call, afterStop |-> zoneCaches.c.stopped]]
    /\ UNCHANGED <<config, via6Trans, tsnet, zoneCaches, now, last, probe>>

\* The ticker case of the sweeper's select: cleanupExpired is entered.
Wake ==
    /\ hist.pc["sweeper"] = "idle"
    /\ hist' = [hist EXCEPT !.pc["sweeper"] = "wait",
                            !.call["sweeper"] = [call |-> SweepCall, afterStop |-> FALSE]]
    /\ UNCHANGED <<config, via6Trans, tsnet, zoneCaches, now, served, last, probe>>

\* zc.mutex.Lock() or zc.mutex.RLock() at the head of the method.
Acquire(p) ==
    /\ hist.pc[p] = "wait"
    /\ IF hist.call[p].call.name \in ReadCalls
       THEN /\ CanRLock(hist.mutex)
            /\ hist' = [hist EXCEPT !.pc[p] = "in", !.mutex = RLock(hist.mutex, p)]
       ELSE /\ CanLock(hist.mutex)
            /\ hist' = [hist EXCEPT !.pc[p] = "in", !.mutex = Lock(hist.mutex, p)]
    /\ UNCHANGED <<config, via6Trans, tsnet, zoneCaches, now, served, last, probe>>

\* Set up to the assignment of the entry: evictions done, entry in the map,
\* memoryUsage not yet raised.
StoreEntry(p) ==
    /\ hist.pc[p] = "in"
    /\ hist.call[p].call.name = "Set"
    /\ LET call == hist.call[p].call
       IN  \E c2 \in Set(zoneCaches.c, call.key, call.response, now) :
               zoneCaches' = [zoneCaches EXCEPT !.c =
                                 [c2 EXCEPT !.memoryUsage =
                                     @ - calculateEntrySize(call.key, call.response)]]
    /\ hist' = [hist EXCEPT !.pc[p] = "acct",
                            !.call[p] = [call |-> hist.call[p].call,
                                         afterStop |-> hist.call[p].afterStop,
                                         before |-> zoneCaches.c]]
    /\ UNCHANGED <<config, via6Trans, tsnet, now, served, last, probe>>

\* The rest of the method and the deferred Unlock or RUnlock.
Finish(p) ==
    LET call == hist.call[p].call
        c == zoneCaches.c
    IN  /\ \/ hist.pc[p] = "in" /\ call.name # "Set"
           \/ hist.pc[p] = "acct"
        /\ zoneCaches' = [zoneCaches EXCEPT !.c =
              CASE call.name = "Set" ->
                      [c EXCEPT !.memoryUsage =
                          @ + calculateEntrySize(call.key, call.response)]
                [] call.name = "Clear" -> Clear(c)
                [] call.name = "Sweep" -> cleanupExpired(c, now)
                [] OTHER -> c]
        /\ hist' = [hist EXCEPT !.pc[p] = "idle",
                                !.mutex = IF call.name \in ReadCalls
                                          THEN RUnlock(hist.mutex, p)
                                          ELSE Unlock(hist.mutex, p)]
        /\ probe' = IF call.name = "Set"
                     THEN [call |-> call, afterStop |-> hist.call[p].afterStop,
                           before |-> hist.call[p].before, after |-> zoneCaches'.c]
                     ELSE [call |-> call]
        /\ UNCHANGED <<config, via6Trans, tsnet, now, served, last>>

\* ZoneCache.Stop: close(stopCleanup), no lock taken.
StopCache(p) ==
    /\ hist.pc[p] = "idle"
    /\ ~zoneCaches.c.stopped
    /\ zoneCaches' = [zoneCaches EXCEPT !.c.stopped = TRUE]
    /\ UNCHANGED <<config, via6Trans, tsnet, now, served, last, probe, hist>>

\* The stopCleanup case of the sweeper's select.
Exit ==
    /\ hist.pc["sweeper"] = "idle"
    /\ zoneCaches.c.stopped
    /\ hist' = [hist EXCEPT !.pc["sweeper"] = "exited"]
    /\ UNCHANGED <<config, via6Trans, tsnet, zoneCaches, now, served, last, probe>>

NextLock ==
    \/ \E p \in Workers, call \in LockCalls : Call(p, call)
    \/ Wake
    \/ \E p \in Procs : Acquire(p)
    \/ \E p \in Workers : StoreEntry(p)
    \/ \E p \in Procs : Finish(p)
    \/ \E p \in Workers : StopCache(p)
    \/ Exit

\* sync.RWMutex hands the lock to a waiter that keeps asking; a goroutine
\* holding it runs on to its deferred unlock.
SpecLock ==
    /\ InitLock
    /\ [][NextLock]_vars
    /\ \A p \in Workers : SF_vars(Acquire(p)) /\ WF_vars(StoreEntry(p))
    /\ \A p \in Procs : WF_vars(Finish(p))
    /\ WF_vars(Exit)

\* The processes inside a method body, lock held.
Inside == {p \in Procs : hist.pc[p] \in {"in", "acct"}}

Quiescent == \A p \in Procs : hist.pc[p] \in {"idle", "exited"}

\* Set, Clear and the sweeper are alone inside the cache; Gets may overlap.
WritersExclusive ==
    \A p, q \in Inside :
        p # q => /\ hist.call[p].call.name \in ReadCalls
                 /\ hist.call[q].call.name \in ReadCalls

\* C33: Set, Clear and sweeper runs exclude each other and every Get, no
\* caller is inside the cache while a Set has stored its entry and not yet
\* raised the counter, and once every call has returned memoryUsage is the
\* sum of the measured sizes of the entries stored.
C33_ExclusiveAndAccounted ==
    /\ WritersExclusive
    /\ \A p \in Procs : hist.pc[p] = "acct" => Inside = {p}
    /\ Quiescent =>
          zoneCaches.c.memoryUsage =
              SumSizes(zoneCaches.c.entries, DOMAIN zoneCaches.c.entries)

\* C34: a call entered after Stop returns, and a Set entered after Stop has
\* on return either left the cache as it was or done the whole insert of
\* Set, entry and memoryUsage both.
C34_CallsReturnAfterStop ==
    /\ \A p \in Workers :
          [](hist.pc[p] # "idle" /\ hist.call[p].afterStop => <>(hist.pc[p] = "idle"))
    /\ []("call" \in DOMAIN probe /\ probe.call.name = "Set" /\ probe.afterStop =>
            \/ probe.after = probe.before
            \/ probe.after \in Set(probe.before, probe.call.key, probe.call.response, now))

\* C34 witness: a Set entered after Stop has returned with its entry stored,
\* the sweeper task gone.
C34_Witness ==
    /\ "call" \in DOMAIN probe
    /\ probe.call.name = "Set"
    /\ probe.afterStop
    /\ probe.call.key \in DOMAIN probe.after.entries
    /\ hist.pc["sweeper"] = "exited"

(***************************************************************************)
(* Shutdown: main's signal loop calls Server.Stop on SIGINT or SIGTERM and *)
(* returns; its deferred cancel wakes the task Server.Start left waiting   *)
(* on ctx.Done(), which calls Server.Stop again if the process is still    *)
(* there.                                                                  *)
(***************************************************************************)
\* A Server.Stop that leaves the zone caches alone.
ServerStopListenerOnly(s) ==
    [s EXCEPT !.listening = FALSE, !.handle = FALSE]

\* Server.Stop: Stop on every cache of the map, Shutdown of the DNS server,
\* Close of the overlay handle.  close() of a closed channel panics.
ServerStop(s) ==
    IF \E n \in DOMAIN s.zoneCaches : s.zoneCaches[n].stopped
    THEN [s EXCEPT !.closes = [n \in DOMAIN s.zoneCaches |->
                                  IF s.zoneCaches[n].stopped THEN 2 ELSE 1],
                   !.panic = TRUE]
    ELSE [s EXCEPT !.zoneCaches = [n \in DOMAIN s.zoneCaches |->
                                      [s.zoneCaches[n] EXCEPT !.stopped = TRUE]],
                   !.closes = [n \in DOMAIN s.zoneCaches |-> 1],
                   !.listening = FALSE,
                   !.handle = FALSE]

\* The server fields Server.Stop works on.
StopFields ==
    [zoneCaches |-> zoneCaches, closes |-> hist.closes, listening |-> hist.listening,
     handle |-> hist.handle, panic |-> FALSE]

InitShutdown ==
    /\ config \in ServerConfigs
    /\ via6Trans = NewTranslator(config)
    /\ tsnet \in BOOLEAN
    /\ zoneCaches = NewZoneCaches(config)
    /\ now = 0
    /\ served = 0
    /\ last = NoLast
    /\ probe = NoProbe
    /\ hist = [phase |-> "running", listening |-> TRUE, handle |-> tsnet,
               closes |-> [n \in DOMAIN zoneCaches |-> 0], exited |-> {},
               reloads |-> 0]

\* SIGHUP while the server runs.
ReloadRunning(raw) ==
    /\ hist.phase = "running"
    /\ hist.reloads < MaxReloads
    /\ LET s2 == reloadConfiguration(ServerFields, raw)
       IN  /\ config' = s2.config
           /\ via6Trans' = s2.via6Trans
           /\ zoneCaches' = s2.zoneCaches
           /\ probe' = [op |-> "Reload", err |-> s2.err]
           /\ hist' = [hist EXCEPT !.reloads = @ + 1,
                                   !.closes = [n \in DOMAIN s2.zoneCaches |-> 0]]
    /\ UNCHANGED <<tsnet, now, served, last>>

\* SIGINT or SIGTERM: server.Stop(), then main returns and cancels ctx.
Shutdown ==
    /\ hist.phase = "running"
    /\ LET s2 == ServerStop(StopFields)
       IN  /\ zoneCaches' = s2.zoneCaches
           /\ hist' = [hist EXCEPT !.phase = "stopped", !.listening = s2.listening,
                                   !.handle = s2.handle, !.closes = s2.closes]
    /\ probe' = [op |-> "Shutdown", handle |-> hist.handle]
    /\ UNCHANGED <<config, via6Trans, tsnet, now, served, last>>

\* The task started by Server.Start: <-ctx.Done(), then s.Stop().
CtxStop ==
    /\ hist.phase = "stopped"
    /\ LET s2 == ServerStop(StopFields)
       IN  /\ zoneCaches' = s2.zoneCaches
           /\ hist' = [hist EXCEPT !.phase = IF s2.panic THEN "crashed" ELSE "stopped again",
                                   !.listening = s2.listening,
                                   !.handle = s2.handle, !.closes = s2.closes]
    /\ probe' = [op |-> "CtxStop"]
    /\ UNCHANGED <<config, via6Trans, tsnet, now, served, last>>

\* main has returned: the process is gone, with every task in it.
ProcessExit ==
    /\ hist.phase \in {"stopped", "stopped again"}
    /\ hist' = [hist EXCEPT !.phase = "exited"]
    /\ UNCHANGED <<config, via6Trans, tsnet, zoneCaches, now, served, last, probe>>

\* The sweeper of a cache of the map takes the stopCleanup case and returns.
SweeperReturn(zoneName) ==
    /\ hist.phase \in {"running", "stopped", "stopped again"}
    /\ zoneName \in DOMAIN zoneCaches
    /\ zoneCaches[zoneName].stopped
    /\ zoneName \notin hist.exited
    /\ hist' = [hist EXCEPT !.exited = @ \cup {zoneName}]
    /\ UNCHANGED <<config, via6Trans, tsnet, zoneCaches, now, served, last, probe>>

NextShutdown ==
    \/ \E raw \in ReloadFiles : ReloadRunning(raw)
    \/ Shutdown
    \/ CtxStop
    \/ ProcessExit
    \/ \E zoneName \in DOMAIN ZonePool : SweeperReturn(zoneName)

\* A closed channel stays ready until the sweeper's select takes it.
SpecShutdown ==
    /\ InitShutdown
    /\ [][NextShutdown]_vars
    /\ \A zoneName \in DOMAIN ZonePool : WF_vars(SweeperReturn(zoneName))

\* The sweepers of the caches of the map that still run.
SweepersRunning ==
    IF hist.phase \in {"crashed", "exited"} THEN {}
    ELSE DOMAIN zoneCaches \ hist.exited

C37_StopOncePerCache ==
    \A n \in DOMAIN hist.closes : hist.closes[n] <= 1

(***************************************************************************)
(* The memory monitor (internal/memory/monitor.go).  Byte counts and       *)
(* limits are scaled down; the comparisons are the code's.                 *)
(***************************************************************************)
NewMonitor(limits) == [zones |-> <<>>, globalLimits |-> limits, enabled |-> TRUE]

\* RegisterZone: the monitor after the call and the type of the error
\* returned, "" for nil.
RegisterZone(m, zoneName) ==
    IF Cardinality(DOMAIN m.zones) >= m.globalLimits.MaxZoneCount
    THEN [m |-> m, err |-> "zone_count"]
    ELSE [m |-> [m EXCEPT !.zones =
                    [n \in DOMAIN m.zones \cup {zoneName} |->
                        IF n = zoneName
                        THEN [CacheSize |-> 0,
                              MaxCacheSize |-> m.globalLimits.MaxCachePerZone]
                        ELSE m.zones[n]]],
          err |-> ""]

\* An UpdateCacheUsage that records the size before it compares it.
UpdateCacheUsageEager(m, zoneName, cacheSize) ==
    IF ~m.enabled THEN [m |-> m, err |-> ""]
    ELSE IF zoneName \notin DOMAIN m.zones THEN [m |-> m, err |-> "zone_not_registered"]
    ELSE [m |-> [m EXCEPT !.zones[zoneName].CacheSize = cacheSize],
          err |-> IF cacheSize > m.zones[zoneName].MaxCacheSize
                  THEN "cache_memory" ELSE ""]

UpdateCacheUsage(m, zoneName, cacheSize) ==
    IF ~m.enabled THEN [m |-> m, err |-> ""]
    ELSE IF zoneName \notin DOMAIN m.zones THEN [m |-> m, err |-> "zone_not_registered"]
    ELSE IF cacheSize > m.zones[zoneName].MaxCacheSize
    THEN [m |-> m, err |-> "cache_memory"]
    ELSE [m |-> [m EXCEPT !.zones[zoneName].CacheSize = cacheSize], err |-> ""]

MonitorZones == {"beta", "gamma", "delta"}

MonitorSizes == 0..4

MonitorLimits ==
    {[MaxZoneCount |-> z, MaxCachePerZone |-> c] : z \in {2, 3}, c \in {2, 3}}

InitMonitor ==
    /\ \E limits \in MonitorLimits : hist = NewMonitor(limits)
    /\ probe = NoProbe
    /\ config = <<>>
    /\ via6Trans = <<>>
    /\ tsnet = FALSE
    /\ zoneCaches = <<>>
    /\ now = 0
    /\ served = 0
    /\ last = NoLast

Register(zoneName) ==
    /\ LET r == RegisterZone(hist, zoneName)
       IN  /\ hist' = r.m
           /\ probe' = [op |-> "RegisterZone", zoneName |-> zoneName, err |-> r.err]
    /\ UNCHANGED <<config, via6Trans, tsnet, zoneCaches, now, served, last>>

Update(zoneName, cacheSize) ==
    /\ LET r == UpdateCacheUsage(hist, zoneName, cacheSize)
       IN  /\ hist' = r.m
           /\ probe' = [op |-> "UpdateCacheUsage", zoneName |-> zoneName,
                        cacheSize |-> cacheSize, err |-> r.err, before |-> hist]
    /\ UNCHANGED <<config, via6Trans, tsnet, zoneCaches, now, served, last>>

\* Monitor.Disable and Monitor.Enable.
SetEnabled(b) ==
    /\ hist' = [hist EXCEPT !.enabled = b]
    /\ probe' = [op |-> "SetEnabled"]
    /\ UNCHANGED <<config, via6Trans, tsnet, zoneCaches, now, served, last>>

NextMonitor ==
    \/ \E zoneName \in MonitorZones : Register(zoneName)
    \/ \E zoneName \in MonitorZones, cacheSize \in MonitorSizes : Update(zoneName, cacheSize)
    \/ \E b \in BOOLEAN : SetEnabled(b)

SpecMonitor == InitMonitor /\ [][NextMonitor]_vars

\* C36: with the monitor enabled, an update of a registered zone above the
\* zone's MaxCacheSize returns a cache_memory error and changes nothing, an
\* update within the limit is recorded as given, and the recorded CacheSize
\* of every zone is never above its MaxCacheSize.
C36_CacheUsageWithinLimit ==
    /\ probe.op = "UpdateCacheUsage" /\ probe.before.enabled
            /\ probe.zoneName \in DOMAIN probe.before.zones =>
          IF probe.cacheSize > probe.before.zones[probe.zoneName].MaxCacheSize
          THEN probe.err = "cache_memory" /\ hist = probe.before
          ELSE /\ probe.err = ""
               /\ hist.zones[probe.zoneName].CacheSize = probe.cacheSize
               /\ \A n \in DOMAIN hist.zones \ {probe.zoneName} :
                     hist.zones[n] = probe.before.zones[n]
    /\ \A n \in DOMAIN hist.zones : hist.zones[n].CacheSize <= hist.zones[n].MaxCacheSize

\* C36 witness: an update above the limit was refused for a zone that has a
\* recorded usage.
C36_Witness ==
    /\ probe.op = "UpdateCacheUsage"
    /\ probe.err = "cache_memory"
    /\ hist.zones[probe.zoneName].CacheSize > 0

(***************************************************************************)
(* Responses per request and exchanges per forward (checked under Spec and *)
(* SpecFwd).                                                               *)
(***************************************************************************)
\* C38: the handler writes exactly one response message for every request,
\* whatever path the request takes and however many questions it carries.
C38_OneResponsePerRequest == Handled => Len(last.written) = 1

\* Backends a configuration file can give: Retries is a plain int that
\* setDefaults replaces only when it is 0 and ValidateZones never looks at.
RetryBackends ==
    {Inherit} \cup
    {Backend(ServerList(n), "1s", retries) : n \in 1..MaxServers, retries \in {-1, 1, 2}}

RetryFiles ==
    {[Global |-> [Backend |-> g, Cache |-> [MaxSize |-> 0, TTL |-> ""]],
      Zones |-> [n \in {"beta"} |-> [ZonePool["beta"] EXCEPT !.Backend = b]]] :
        g \in RetryBackends, b \in RetryBackends}

\* The server after config.Load accepted one of the files.
InitRetries ==
    /\ \E raw \in RetryFiles :
          /\ LoadAndBuild(raw).ok
          /\ config = LoadAndBuild(raw).cfg
    /\ via6Trans = NewTranslator(config)
    /\ zoneCaches = <<>>
    /\ tsnet = FALSE
    /\ now = 0
    /\ served = 0
    /\ last = NoLast
    /\ hist = <<>>
    /\ probe = NoProbe

\* The forward step of ServeDNS: the forwarder of the zone's backend for a
\* request with a zone, the global forwarder for one without.
ForwardFor(zone, r) ==
    LET f == NewForwarder(IF zone = Nil THEN config.Global.Backend
                          ELSE config.Zones[zone].Backend)
    IN  /\ \E outcomes \in AttemptOutcomes(f) :
              \E x \in ForwardWithZoneAndCache(f, r, "z", Nil, zoneCaches, outcomes, now) :
                  probe' = [op |-> "Forward", zone |-> zone, f |-> f, req |-> r,
                            outcomes |-> outcomes, written |-> x.written,
                            exchanges |-> x.exchanges]
        /\ UNCHANGED <<config, via6Trans, tsnet, zoneCaches, now, served, last, hist>>

NextRetries ==
    \E zone \in DOMAIN config.Zones \cup {Nil}, r \in ForwardedRequests : ForwardFor(zone, r)

SpecRetries == InitRetries /\ [][NextRetries]_vars

\* C39: a forward makes at most retries x (number of backends) exchanges,
\* and under a configuration that validation accepted it makes at least one
\* before it answers ServerFailure.
C39_ExchangesBounded ==
    probe.op = "Forward" =>
        /\ Len(probe.exchanges) <= probe.f.retries * Len(probe.f.backends)
        /\ probe.written = <<FailureReply(probe.req)>> => Len(probe.exchanges) >= 1

(***************************************************************************)
(* Cache ttls: startup and reload over files whose cache ttl is absent,    *)
(* positive, zero, negative or not a duration.                             *)
(***************************************************************************)
TTLCaches ==
    {NoCache} \cup {CacheCfg(1, ttl) : ttl \in {"", "1s", "0s", "-1s", "bogus"}}

TTLFiles ==
    {[Global |-> [Backend |-> Inherit, Cache |-> [MaxSize |-> 2, TTL |-> g]],
      Zones |-> [n \in S |-> IF n = "beta" THEN [ZonePool[n] EXCEPT !.Cache = c]
                             ELSE ZonePool[n]]] :
        g \in {"", "2s", "0s"}, c \in TTLCaches, S \in {{"beta"}, {"beta", "gamma"}}}

NextTTL ==
    \/ \E raw \in TTLFiles : Start(raw)
    \/ \E raw \in TTLFiles : ReloadFile(raw)

SpecTTL == InitLoad /\ [][NextTTL]_vars

\* The file gives some zone a cache whose ttl, after defaults, is a duration
\* of zero or less.
NonPositiveTTL(raw) ==
    LET d == setDefaults(raw)
    IN  \E n \in DOMAIN d.cfg.Zones :
            LET c == d.cfg.Zones[n].Cache
            IN  c.set /\ c.TTL # "" /\ ParseDuration(c.TTL).ok /\ ParseDuration(c.TTL).d <= 0

\* C40: every cache of the running server has a ttl whose quarter is a
\* positive ticker interval, and a file that gives a cache a ttl of zero or
\* less is refused at startup and on reload.
C40_SweeperIntervalPositive ==
    /\ Running => \A n \in DOMAIN zoneCaches : zoneCaches[n].ttl > 0
    /\ probe.op \in {"Start", "Reload"} /\ NonPositiveTTL(probe.file) => probe.err # ""
====
